---- MODULE Spec2Model ----
(***************************************************************************)
(* Whiteout core: alias generator, decoy mixer, Touchstone classification *)
(* client, assembler and substituter, modelled from packages/core/src.    *)
(***************************************************************************)
EXTENDS Integers, Sequences, FiniteSets, TLC

VARIABLES
    \* ---- alias generator / pipeline sessions (index.ts, alias-generator) ----
    aliases,          \* MemoryStore.aliases: sessionId -> alias map
    genericCounters,  \* module-level counters of the generic style
    aliasMap,         \* the alias map the running pipeline call holds
    apc,              \* position of the running pipeline call
    acall,            \* the running call: session, style, detected entities
    aout,             \* entities (with proposedAlias) of the last assemble
    issued,           \* history: every alias generateAlias has returned
    ncalls,           \* pipeline calls started so far
    \* ---- decoy mixer called on its own (decoy-mixer.ts) ----
    mixIn,            \* the arguments: realTerms, ratio, maxBatch
    mixOut,           \* the value returned: mixed, realSet
    mpc,              \* "input" before the call, "mixed" after it
    \* ---- classification client inside a pipeline call (touchstone-client) ----
    doc,              \* the document: text and detectLocal's groups
    cfg,              \* maxBatchSize, decoyRatio
    cache,            \* MemoryStore.cache: term -> {results, expiresAt}
    now,              \* Date.now()
    cpc,              \* position of the call (the await it is suspended at)
    pos,              \* lookup loop: group index, token index (0: group text)
    results,          \* classifyBatch: results map
    termsToClassify,  \* classifyBatch: termsToClassify
    batches,          \* classifyBatch: batches
    bi,               \* index of the batch being processed
    useRest,          \* classifyBatch: useRest
    cur,              \* mixed and realSet of the batch being processed
    posts,            \* history: every POST made, with its outcome
    tasks,            \* parseAndStoreResults calls still running unawaited
    served,           \* history: cache hits (term, time, expiry)
    misses,           \* history: terms looked up and not found
    stored,           \* history: (term, batch) written by parseAndStoreResults
    unhandled,        \* promise rejections nobody awaited
    nticks,           \* clock steps taken
    entities,         \* PipelineResult.entities
    anonymizedText,   \* PipelineResult.anonymizedText
    \* ---- substituter called on its own (substituter.ts) ----
    subText,          \* the text argument
    subEntities,      \* the entities argument
    subOut,           \* the string returned
    subArgs,          \* the arguments as the caller holds them after the call
    subRestored,      \* the string deanonymize returned
    spc,              \* "input", "done" after substitute, "restored" after deanonymize
    \* ---- tokenize called on its own (tokenizer.ts) ----
    tokText,          \* the text argument
    tokOut,           \* the Token[] returned
    tpc,              \* "input" before the call, "done" after it
    \* ---- assemble called on its own (assembler.ts) ----
    asmGroups,        \* the groups argument
    asmTr,            \* the touchstoneResults argument
    asmResolved,      \* the entities after the loop over the groups
    asmOut,           \* the Entity[] returned
    asmpc,            \* "input" before the call, "done" after it
    \* ---- entity graph (entity-graph.ts, memory-entity-graph) ----
    gEntities,        \* MemoryEntityGraph.entities, in insertion order
    gOccurrences,     \* MemoryEntityGraph.occurrences
    gDocuments,       \* MemoryEntityGraph.documents: the ids stored
    gObjs,            \* the KnownEntity objects allocated so far (the heap)
    gClock,           \* the time new Date() last returned
    gIds,             \* ids generateId has returned
    rec,              \* the recordDocument calls: locals and suspension point
    nrec,             \* recordDocument calls started so far
    gDetected,        \* the detectedEntities of the last findMatches call
    gMatches,         \* the Map the last findMatches call returned
    \* ---- canonicalize called on its own (entity-graph.ts) ----
    canIn,            \* the text argument
    canOut,           \* the string returned
    canpc,            \* "input" before the call, "done" after it
    \* ---- pipeline calls of two sessions running together (index.ts) ----
    parCounters,      \* the module-level genericCounters
    parAliases,       \* MemoryStore.aliases: sessionId -> alias map
    parCalls,         \* per session: the call's locals and suspension point
    \* ---- a pipeline call on a failing StorePort (ports.ts) ----
    broken,           \* the StorePort method whose calls reject, or "none"
    storeFate,        \* history: what became of each rejected storage call
    \* ---- tokenize, detectLocal and assemble in a row (index.ts 53-80) ----
    detText,          \* the text pipeline() is called on
    detTokens,        \* tokenize(text)
    detGroups,        \* detectLocal(tokens)
    detEntities,      \* assemble(groups, ...)
    detpc             \* "text", "tokens", "groups", "entities"; "off" elsewhere

aliasVars == <<aliases, genericCounters, aliasMap, apc, acall, aout, issued, ncalls>>

mixVars == <<mixIn, mixOut, mpc>>

clientVars == <<doc, cfg, cache, now, cpc, pos, results, termsToClassify, batches,
                bi, useRest, cur, posts, tasks, served, misses, stored, unhandled,
                nticks, entities, anonymizedText>>

subVars == <<subText, subEntities, subOut, subArgs, subRestored, spc>>

tokVars == <<tokText, tokOut, tpc>>

asmVars == <<asmGroups, asmTr, asmResolved, asmOut, asmpc>>

egVars == <<gEntities, gOccurrences, gDocuments, gObjs, gClock, gIds, rec, nrec,
           gDetected, gMatches>>

canVars == <<canIn, canOut, canpc>>

parVars == <<parCounters, parAliases, parCalls>>

stVars == <<broken, storeFate>>

detVars == <<detText, detTokens, detGroups, detEntities, detpc>>

vars == <<aliasVars, mixVars, clientVars, subVars, tokVars, asmVars, egVars, canVars, parVars, stVars, detVars>>

\* ------------------------------------------------------------------------
\* Bounds
\* ------------------------------------------------------------------------
MaxCalls == 2
MaxRealTerms == 2
MaxBatchBound == 3
MaxBatchSize == 2
MaxTicks == 1
MaxSubEntities == 2
MaxPieces == 2

\* ------------------------------------------------------------------------
\* Generic helpers
\* ------------------------------------------------------------------------
Min(a, b) == IF a < b THEN a ELSE b
Max(a, b) == IF a > b THEN a ELSE b

\* Finite maps (JS Map / object): functions with a finite domain of keys.
EmptyMap == [k \in {} |-> ""]
MapSet(m, k, v) == [x \in (DOMAIN m) \cup {k} |-> IF x = k THEN v ELSE m[x]]
MapHas(m, k) == k \in DOMAIN m

\* [].concat(...seqs)
RECURSIVE Flatten(_)
Flatten(seqs) == IF seqs = <<>> THEN <<>> ELSE Head(seqs) \o Flatten(Tail(seqs))

\* Sequences of length 0..n over S.
SeqUpTo(S, n) == UNION {[1..k -> S] : k \in 0..n}

\* ------------------------------------------------------------------------
\* Strings (String.prototype.slice, toUpperCase, single characters)
\* ------------------------------------------------------------------------
CharAt(s, i) == SubSeq(s, i + 1, i + 1)            \* 0-based s[i]

\* s.slice(from, to) for 0 <= from; to is clamped to the length.
slice(s, from, to) ==
    IF from >= Min(to, Len(s)) THEN "" ELSE SubSeq(s, from + 1, Min(to, Len(s)))

sliceFrom(s, from) == slice(s, from, Len(s))

LowerChars == <<"a","b","c","d","e","f","g","h","i","j","k","l","m",
                "n","o","p","q","r","s","t","u","v","w","x","y","z">>
UpperChars == <<"A","B","C","D","E","F","G","H","I","J","K","L","M",
                "N","O","P","Q","R","S","T","U","V","W","X","Y","Z">>
DigitChars == {"0","1","2","3","4","5","6","7","8","9"}

UpperChar(c) ==
    IF \E i \in 1..26 : LowerChars[i] = c
    THEN UpperChars[CHOOSE i \in 1..26 : LowerChars[i] = c]
    ELSE c

RECURSIVE toUpperCase(_)
toUpperCase(s) ==
    IF s = "" THEN "" ELSE UpperChar(CharAt(s, 0)) \o toUpperCase(sliceFrom(s, 1))

IsUpperLetter(c) == \E i \in 1..26 : UpperChars[i] = c

LowerChar(c) ==
    IF \E i \in 1..26 : UpperChars[i] = c
    THEN LowerChars[CHOOSE i \in 1..26 : UpperChars[i] = c]
    ELSE c

RECURSIVE toLowerCase(_)
toLowerCase(s) ==
    IF s = "" THEN "" ELSE LowerChar(CharAt(s, 0)) \o toLowerCase(sliceFrom(s, 1))

\* \w of a JS regular expression, as far as the model's alphabet goes.
IsWordChar(c) ==
    \/ \E i \in 1..26 : UpperChars[i] = c \/ LowerChars[i] = c
    \/ c \in DigitChars
    \/ c = "_"

\* ------------------------------------------------------------------------
\* Alias generator (alias-generator.ts, held in entity-graph.ts 398-558)
\* ------------------------------------------------------------------------
EntityTypes == {"person", "company", "address", "city", "email", "phone",
                "iban", "ssn", "url", "unknown"}

\* A counter slot of the genericCounters object: a number, NaN, or no such key.
Num(n) == [k |-> "num", n |-> n]
NaNValue == [k |-> "nan", n |-> 0]
NoKey == [k |-> "absent", n |-> 0]

\* let genericCounters = { person: 0, company: 0, address: 0, city: 0,
\*                         email: 0, phone: 0 }
InitialCounters ==
    [t \in EntityTypes |->
        IF t \in {"person", "company", "address", "city", "email", "phone"}
        THEN Num(0) ELSE NoKey]

\* for (const key of Object.keys(genericCounters)) genericCounters[key] = 0
resetAliasCounters(counters) ==
    [t \in EntityTypes |-> IF counters[t].k = "absent" THEN NoKey ELSE Num(0)]

\* Samples of the data pools (data/alias-*.json) and of the inline pools.
FIRSTNAMES == <<"Alice", "Bruno">>
SURNAMES == <<"Morel", "Petit">>
COMPANY_STANDALONE == <<"Novalis", "Altea">>
COMPANY_PREFIXES == <<"Groupe", "Atelier">>
COMPANY_SUFFIXES == <<"Conseil", "Services">>
CITY_POOL == <<"Bordeaux", "Nantes">>
EMAIL_DOMAINS == <<"email.fr", "courrier.net">>
STREETS == <<"rue", "avenue">>
STREET_NAMES == <<"des Tilleuls", "du Commerce">>
STREET_NUMBERS == <<"1", "150">>
DIGIT_PAIRS == <<"10", "99">>
DIGIT_TRIPLES == <<"100", "999">>
LEGAL_FORM_PREFIXES == {"SCI", "SARL", "SAS", "SA", "EURL", "SASU", "LLC",
                        "LTD", "GMBH", "AG", "INC", "CORP"}

\* The random draws of one alias generation: two independent picks.
Picks == [a : 1..2, b : 1..2]

Labels(type) ==
    CASE type = "person" -> "Personne"
      [] type = "company" -> "Societe"
      [] type = "address" -> "Adresse"
      [] type = "city" -> "Ville"
      [] type = "email" -> "email"
      [] type = "phone" -> "telephone"
      [] type = "iban" -> "IBAN"
      [] type = "ssn" -> "NIR"
      [] OTHER -> "Entite"

\* const n = ++genericCounters[type] || 1; returns <<alias, counters>>.
generateGenericAlias(type, counters) ==
    LET old == counters[type]
        new == IF old.k = "num" THEN Num(old.n + 1) ELSE NaNValue
        n == IF new.k = "num" /\ new.n # 0 THEN new.n ELSE 1
        alias ==
            CASE type = "email" -> "personne" \o ToString(n) \o "@exemple.fr"
              [] type = "phone" -> "+33 X XX XX XX X" \o ToString(n)
              [] type = "iban" -> "FRXX XXXX XXXX XXXX XXXX XXX" \o ToString(n)
              [] type = "ssn" -> "X XX XX XX XXX XXX X" \o ToString(n)
              [] OTHER -> Labels(type) \o " " \o ToString(n)
    IN  <<alias, [counters EXCEPT ![type] = new]>>

HasNameSeparator(s) == \E i \in 0..(Len(s) - 1) : CharAt(s, i) \in {" ", "-"}

generatePersonAlias(original, p) ==
    IF HasNameSeparator(original)
    THEN FIRSTNAMES[p.a] \o " " \o SURNAMES[p.b]
    ELSE IF original = toUpperCase(original)
         THEN toUpperCase(SURNAMES[p.a])
         ELSE FIRSTNAMES[p.a]

\* /^(SCI|SARL|...)\b/i : the legal form the text starts with, or "".
LegalFormOf(original) ==
    LET hit(f) == /\ Len(original) >= Len(f)
                  /\ toUpperCase(slice(original, 0, Len(f))) = f
                  /\ \/ Len(original) = Len(f)
                     \/ ~IsWordChar(CharAt(original, Len(f)))
    IN  IF \E f \in LEGAL_FORM_PREFIXES : hit(f)
        THEN slice(original, 0, Len(CHOOSE f \in LEGAL_FORM_PREFIXES : hit(f)))
        ELSE ""

generateCompanyAlias(original, p) ==
    IF LegalFormOf(original) # ""
    THEN LegalFormOf(original) \o " " \o COMPANY_STANDALONE[p.a]
    ELSE COMPANY_PREFIXES[p.a] \o " " \o COMPANY_SUFFIXES[p.b]

generateAddressAlias(original, p) ==
    STREET_NUMBERS[p.a] \o " " \o STREETS[p.b] \o " " \o STREET_NAMES[p.a]

generateEmailAlias(p) ==
    toLowerCase(FIRSTNAMES[p.a]) \o "." \o toLowerCase(SURNAMES[p.b])
        \o "@" \o EMAIL_DOMAINS[p.a]

RECURSIVE RandomizeDigits(_, _)
RandomizeDigits(s, p) ==
    IF s = "" THEN ""
    ELSE (IF CharAt(s, 0) \in DigitChars THEN SubSeq(DIGIT_PAIRS[p.a], 1, 1)
          ELSE CharAt(s, 0)) \o RandomizeDigits(sliceFrom(s, 1), p)

generatePhoneAlias(original, p) ==
    IF \/ slice(original, 0, 3) = "+33"
       \/ CharAt(original, 0) = "0" /\ CharAt(original, 1) \in (DigitChars \ {"0"})
    THEN "+33 6 " \o DIGIT_PAIRS[p.a] \o " " \o DIGIT_PAIRS[p.b] \o " "
             \o DIGIT_PAIRS[p.a] \o " " \o DIGIT_PAIRS[p.b]
    ELSE IF slice(original, 0, 3) = "+44"
         THEN "+44 " \o DIGIT_TRIPLES[p.a] \o " " \o DIGIT_TRIPLES[p.b] \o " "
                  \o DIGIT_TRIPLES[p.a]
         ELSE RandomizeDigits(original, p)

\* text.replace(/[\dA-Z]/g, (ch, i) => (i < 4 ? ch : "X"))
RECURSIVE MaskFrom(_, _)
MaskFrom(s, i) ==
    IF i >= Len(s) THEN ""
    ELSE (IF i >= 4 /\ (CharAt(s, i) \in DigitChars \/ IsUpperLetter(CharAt(s, i)))
          THEN "X" ELSE CharAt(s, i)) \o MaskFrom(s, i + 1)

maskWithX(text) == MaskFrom(text, 0)

generateRealisticAlias(type, original, p) ==
    CASE type = "person" -> generatePersonAlias(original, p)
      [] type = "company" -> generateCompanyAlias(original, p)
      [] type = "address" -> generateAddressAlias(original, p)
      [] type = "city" -> CITY_POOL[p.a]
      [] type = "email" -> generateEmailAlias(p)
      [] type = "phone" -> generatePhoneAlias(original, p)
      [] type = "iban" -> maskWithX(original)
      [] type = "ssn" -> maskWithX(original)
      [] OTHER -> "[" \o slice(original, 0, 3) \o "...]"

\* generateAlias without the lookup of the existing alias: every call
\* generates afresh.
generateAliasNoReuse(type, originalText, map, style, counters, p) ==
    LET gen == IF style = "generic"
               THEN generateGenericAlias(type, counters)
               ELSE <<generateRealisticAlias(type, originalText, p), counters>>
    IN  [alias |-> gen[1], map |-> MapSet(map, originalText, gen[1]),
         counters |-> gen[2]]

\* generateAlias(type, originalText, aliasMap, style): the alias returned, with
\* the alias map and the counters as the call leaves them.  `if (existing)`
\* is a truthiness test: an empty alias counts as none.
generateAlias(type, originalText, map, style, counters, p) ==
    IF MapHas(map, originalText) /\ map[originalText] # ""
    THEN [alias |-> map[originalText], map |-> map, counters |-> counters]
    ELSE LET gen == IF style = "generic"
                    THEN generateGenericAlias(type, counters)
                    ELSE <<generateRealisticAlias(type, originalText, p), counters>>
         IN  [alias |-> gen[1], map |-> MapSet(map, originalText, gen[1]),
              counters |-> gen[2]]

\* ------------------------------------------------------------------------
\* Decoy mixer (decoy-mixer.ts, held in unnamed/part_006 1-72)
\* ------------------------------------------------------------------------
\* A ratio is a non-negative rational num/den.
Ratio(num, den) == [num |-> num, den |-> den]

\* Math.ceil(n * ratio)
CeilTimes(n, ratio) == (n * ratio.num + ratio.den - 1) \div ratio.den

\* Math.floor(m / (1 + ratio))
FloorDivOnePlus(m, ratio) == (m * ratio.den) \div (ratio.den + ratio.num)

Range(seq) == {seq[i] : i \in 1..Len(seq)}

Count(seq, x) == Cardinality({i \in 1..Len(seq) : seq[i] = x})

\* generateDecoy(): roll (in tenths) chooses the pool, pickRandom the entry.
DecoyRolls == {3, 6, 9}
generateDecoy(roll) ==
    IF roll < 4 THEN FIRSTNAMES[1]
    ELSE IF roll < 7 THEN SURNAMES[1]
    ELSE COMPANY_STANDALONE[1]

\* The values crypto.getRandomValues may put in buf[0..n-1], as far as the
\* shuffle tells them apart: buf[i] % (i + 1) takes every value of 0..i.
RECURSIVE ShuffleBufs(_)
ShuffleBufs(n) ==
    IF n = 0 THEN {<<>>}
    ELSE {Append(b, j) : b \in ShuffleBufs(n - 1), j \in 0..(n - 1)}

Swap(arr, i, j) == [arr EXCEPT ![i] = arr[j], ![j] = arr[i]]

\* for (let i = arr.length - 1; i > 0; i--) { j = buf[i] % (i + 1); swap }
\* (i is 0-based as in the source; arr and buf are 1-based sequences).
RECURSIVE ShuffleFrom(_, _, _)
ShuffleFrom(arr, buf, i) ==
    IF i <= 0 THEN arr
    ELSE LET draw == buf[(i % Len(buf)) + 1]
             j == draw % (i + 1)
         IN  ShuffleFrom(Swap(arr, i + 1, j + 1), buf, i - 1)

fisherYatesShuffle(arr, buf) ==
    IF Len(arr) = 0 THEN arr ELSE ShuffleFrom(arr, buf, Len(arr) - 1)

\* The random draws of one mixDecoys call: the decoy rolls, the shuffle buffer.
MixDraws(n) == [rolls : [1..n -> DecoyRolls], buf : ShuffleBufs(Max(n, 1))]

\* mixDecoys as it was before the decoy budget: ceil(n * ratio) decoys are
\* added, and the shuffled list is cut to maxBatch.
mixDecoysTruncating(realTerms, ratio, maxBatch, rnd) ==
    LET decoyCount == CeilTimes(Len(realTerms), ratio)
        decoys == [i \in 1..decoyCount |-> generateDecoy(rnd.rolls[((i - 1) % Len(rnd.rolls)) + 1])]
        mixed == fisherYatesShuffle(realTerms \o decoys, rnd.buf)
    IN  [mixed |-> IF Len(mixed) > maxBatch THEN SubSeq(mixed, 1, maxBatch) ELSE mixed,
         realSet |-> Range(realTerms)]

\* mixDecoys(realTerms, ratio, maxBatch)
mixDecoys(realTerms, ratio, maxBatch, rnd) ==
    LET availableForDecoys == Max(0, maxBatch - Len(realTerms))
        desiredDecoys == CeilTimes(Len(realTerms), ratio)
        decoyCount == Min(desiredDecoys, availableForDecoys)
        decoys == [i \in 1..decoyCount |-> generateDecoy(rnd.rolls[i])]
        mixed == fisherYatesShuffle(realTerms \o decoys, rnd.buf)
    IN  [mixed |-> mixed, realSet |-> Range(realTerms)]

\* ------------------------------------------------------------------------
\* Tokens and groups (types.ts), and the documents the pipeline is run on
\* ------------------------------------------------------------------------
Tok(text, kind, start) ==
    [text |-> text, kind |-> kind, start |-> start, end |-> start + Len(text)]

RECURSIVE JoinTexts(_)
JoinTexts(tokens) ==
    IF Len(tokens) = 0 THEN ""
    ELSE IF Len(tokens) = 1 THEN tokens[1].text
    ELSE tokens[1].text \o " " \o JoinTexts(Tail(tokens))

\* A DetectedGroup as detectLocal builds it; localType "" stands for none.
Group(tokens, localType, confidence, skip) ==
    [tokens |-> tokens, text |-> JoinTexts(tokens), localType |-> localType,
     confidence |-> confidence, skipTouchstone |-> skip]

PatternGroup(text, type, start) ==
    Group(<<Tok(text, "pattern", start)>>, type, "certain", TRUE)

\* Documents with the groups detectLocal returns for them (pattern groups
\* first, then company, address, person, bare candidates).
Docs ==
    { [text |-> "a@b.fr 0612345678",
       groups |-> <<PatternGroup("a@b.fr", "email", 0),
                    PatternGroup("0612345678", "phone", 7)>>],
      [text |-> "M Dupont a@b.fr",
       groups |-> <<PatternGroup("a@b.fr", "email", 9),
                    Group(<<Tok("M", "word", 0), Tok("Dupont", "word", 2)>>,
                          "person_candidate", "probable", FALSE)>>],
      [text |-> "SARL Morel a Lyon et Lyon",
       groups |-> <<Group(<<Tok("SARL", "word", 0), Tok("Morel", "word", 5)>>,
                          "company_candidate", "probable", FALSE),
                    Group(<<Tok("Lyon", "word", 13)>>, "", "candidate", FALSE),
                    Group(<<Tok("Lyon", "word", 21)>>, "", "candidate", FALSE)>>],
      [text |-> "12 rue Lyon 0612345678",
       groups |-> <<PatternGroup("0612345678", "phone", 12),
                    Group(<<Tok("12", "number", 0), Tok("rue", "word", 3),
                            Tok("Lyon", "word", 7)>>,
                          "address_fragment", "probable", FALSE)>>] }

\* ------------------------------------------------------------------------
\* Storage port: classification cache (MemoryStore, ports.ts in node-fetch.ts)
\* ------------------------------------------------------------------------
CACHE_TTL_MS == 86400000

TResult(dict, type) == [dict |-> dict, match |-> TRUE, type |-> type]

MapDel(m, k) == [x \in (DOMAIN m) \ {k} |-> m[x]]

\* getCachedClassification without the expiry test.
getCachedClassificationNoExpiry(c, term, t) ==
    IF ~MapHas(c, term) THEN [hit |-> FALSE, results |-> <<>>, expiresAt |-> 0, cache |-> c]
    ELSE [hit |-> TRUE, results |-> c[term].results,
          expiresAt |-> c[term].expiresAt, cache |-> c]

\* MemoryStore.getCachedClassification(term) at time t: an entry is dropped
\* once Date.now() > expiresAt.
getCachedClassification(c, term, t) ==
    IF ~MapHas(c, term) THEN [hit |-> FALSE, results |-> <<>>, expiresAt |-> 0, cache |-> c]
    ELSE IF t > c[term].expiresAt
         THEN [hit |-> FALSE, results |-> <<>>, expiresAt |-> 0, cache |-> MapDel(c, term)]
         ELSE [hit |-> TRUE, results |-> c[term].results,
               expiresAt |-> c[term].expiresAt, cache |-> c]

\* MemoryStore.setCachedClassification(term, results, ttlMs) at time t.
setCachedClassification(c, term, res, ttlMs, t) ==
    MapSet(c, term, [results |-> res, expiresAt |-> t + ttlMs])

\* ------------------------------------------------------------------------
\* Classification client (touchstone-client.ts, held in tokenizer.ts 146-325)
\* ------------------------------------------------------------------------
\* What the remote dictionary answers for a term.
ServerResults(term) ==
    CASE term = "Dupont" -> <<TResult("surnames", "surname")>>
      [] term = "Morel" -> <<TResult("surnames", "surname")>>
      [] term = "Lyon" -> <<TResult("cities", "city")>>
      [] term = "Alice" -> <<TResult("first_names", "first_name")>>
      [] OTHER -> <<>>

RECURSIVE Dedupe(_, _)
Dedupe(seq, seen) ==
    IF seq = <<>> THEN <<>>
    ELSE IF Head(seq) \in seen THEN Dedupe(Tail(seq), seen)
    ELSE <<Head(seq)>> \o Dedupe(Tail(seq), seen \cup {Head(seq)})

\* [...new Set(termsToClassify)]
Unique(seq) == Dedupe(seq, {})

\* The lookup loop without the `token.kind === "word"` test.
RECURSIVE SeekFromAnyKind(_, _, _, _)
SeekFromAnyKind(groups, g, t, res) ==
    IF g > Len(groups) THEN [g |-> g, t |-> 0]
    ELSE IF groups[g].skipTouchstone THEN SeekFromAnyKind(groups, g + 1, 0, res)
    ELSE IF t = 0 THEN [g |-> g, t |-> 0]
    ELSE IF t > Len(groups[g].tokens) THEN SeekFromAnyKind(groups, g + 1, 0, res)
    ELSE IF ~MapHas(res, groups[g].tokens[t].text)
         THEN [g |-> g, t |-> t]
         ELSE SeekFromAnyKind(groups, g, t + 1, res)

\* Where the lookup loop next calls getCachedClassification, from token t of
\* group g on (t = 0: the group text); g > Len(groups) when the loop is over.
RECURSIVE SeekFrom(_, _, _, _)
SeekFrom(groups, g, t, res) ==
    IF g > Len(groups) THEN [g |-> g, t |-> 0]
    ELSE IF groups[g].skipTouchstone THEN SeekFrom(groups, g + 1, 0, res)
    ELSE IF t = 0 THEN [g |-> g, t |-> 0]
    ELSE IF t > Len(groups[g].tokens) THEN SeekFrom(groups, g + 1, 0, res)
    ELSE IF groups[g].tokens[t].kind = "word" /\ ~MapHas(res, groups[g].tokens[t].text)
         THEN [g |-> g, t |-> t]
         ELSE SeekFrom(groups, g, t + 1, res)

\* The older client: one batch holding every term.
splitIntoBatchesWhole(terms, maxBatch, decoyRatio) == <<terms>>

\* splitIntoBatches(terms, maxBatch, decoyRatio)
splitIntoBatches(terms, maxBatch, decoyRatio) ==
    LET maxReal == Max(1, FloorDivOnePlus(maxBatch, decoyRatio))
        count == (Len(terms) + maxReal - 1) \div maxReal
    IN  [k \in 1..count |->
            SubSeq(terms, (k - 1) * maxReal + 1, Min(k * maxReal, Len(terms)))]

\* The sampled random draws of the mixDecoys call of one batch.
ClientDraws ==
    { [rolls |-> [i \in 1..MaxBatchSize |-> 3], buf |-> [k \in 1..MaxBatchSize |-> 0]],
      [rolls |-> [i \in 1..MaxBatchSize |-> 6], buf |-> [k \in 1..MaxBatchSize |-> k - 1]] }

\* Object.entries(raw.classifications) of a well-formed answer to a request:
\* the server classifies every term it was sent, in request order.
ResponseEntries(mixed) == Unique(mixed)

\* parseAndStoreResults without the realSet test.
RealEntriesUnfiltered(entries, realSet) == entries

\* The entries parseAndStoreResults does not skip: `if (!realSet.has(term)) continue`.
RealEntries(entries, realSet) == SelectSeq(entries, LAMBDA term : term \in realSet)

\* One pass of the loop body of parseAndStoreResults for `term`:
\* results.set(term, ...) and store.setCachedClassification(term, ..., 24 h).
StoreOne(st, term, batch, t) ==
    [results |-> MapSet(st.results, term, ServerResults(term)),
     cache |-> setCachedClassification(st.cache, term, ServerResults(term),
                                       CACHE_TTL_MS, t),
     stored |-> st.stored \cup {[term |-> term, batch |-> batch]}]

RECURSIVE StoreAll(_, _, _, _)
StoreAll(st, terms, batch, t) ==
    IF terms = <<>> THEN st
    ELSE StoreAll(StoreOne(st, Head(terms), batch, t), Tail(terms), batch, t)

\* ------------------------------------------------------------------------
\* Assembler (assembler.ts) and substituter (substituter.ts, unnamed/part_008)
\* ------------------------------------------------------------------------
\* An optional acceptedAlias: absent, or present with a value.
NotAccepted == [set |-> FALSE, value |-> ""]
Accepted(alias) == [set |-> TRUE, value |-> alias]

Entity(text, start, end, type, confidence, sources, alias) ==
    [text |-> text, start |-> start, end |-> end, type |-> type,
     confidence |-> confidence, sources |-> sources, proposedAlias |-> alias,
     acceptedAlias |-> NotAccepted]

\* [...seq].sort((a, b) => dir * (a.start - b.start)): a stable sort by start,
\* ascending for dir = 1 and descending for dir = -1.
RECURSIVE sortByStart(_, _)
sortByStart(seq, dir) ==
    IF seq = <<>> THEN <<>>
    ELSE LET e == seq[Len(seq)]
             sorted == sortByStart(SubSeq(seq, 1, Len(seq) - 1), dir)
             k == Cardinality({i \in DOMAIN sorted : dir * (sorted[i].start - e.start) <= 0})
         IN  SubSeq(sorted, 1, k) \o <<e>> \o SubSeq(sorted, k + 1, Len(sorted))

\* ------------------------------------------------------------------------
\* Tokenizer (tokenizer.ts)
\* ------------------------------------------------------------------------
\* Regular expressions are matched at a given offset i of the text t and
\* give the offset after the match, or NoMatch. A value that is used more
\* than once is bound first, as x in {f(x) : x \in {value}}.
NoMatch == -1

Only(S) == CHOOSE x \in S : TRUE

UpperSet == {UpperChars[i] : i \in 1..26}
LetterSet == UpperSet \cup {LowerChars[i] : i \in 1..26}
WhiteSet == {" ", "\t", "\n", "\r"}                          \* \s
SepSet == WhiteSet \cup {".", "-"}                           \* [\s.-]
IbanSet == DigitChars \cup UpperSet                          \* [\dA-Z]
EmailLocalSet == LetterSet \cup DigitChars \cup {".", "_", "%", "+", "-"}
EmailDomainSet == LetterSet \cup DigitChars \cup {".", "-"}
UrlSet == LetterSet \cup DigitChars \cup
          {"_", "-", ".", "~", ":", "/", "?", "#", "[", "]", "@", "!", "$",
           "&", "'", "(", ")", "*", "+", ",", ";", "=", "%"}
WordInnerSet == LetterSet \cup {"'", "-"}                    \* [a-zA-Z''-]

InClass(t, i, S) == i >= 0 /\ i < Len(t) /\ CharAt(t, i) \in S

\* The end of the longest run of characters of S from offset i.
RunEnd(t, i, S) ==
    CHOOSE j \in i..Max(i, Len(t)) :
        /\ \A k \in i..(j - 1) : InClass(t, k, S)
        /\ ~InClass(t, j, S)

\* The pieces a pattern is a sequence of.
Item(op, set, n, lits) == [op |-> op, set |-> set, n |-> n, lits |-> lits]
FirstOf(lits) == Item("firstof", {}, 0, lits)               \* (?:a|b|c)
Lit(s) == FirstOf(<<s>>)
Opt(S) == Item("opt", S, 1, <<>>)                            \* [S]?
Exact(S, n) == Item("exact", S, n, <<>>)                     \* [S]{n}
Star(S) == Item("star", S, 0, <<>>)                          \* [S]*
Plus(S) == Item("plus", S, 0, <<>>)                          \* [S]+
UpTo(S, n) == Item("upto", S, n, <<>>)                       \* [S]{1,n}
SsnDept == Item("ssnDept", {}, 0, <<>>)                      \* (?:\d{2}|2[AB])
EmailDomain == Item("emailDomain", {}, 0, <<>>)

\* [a-zA-Z0-9.-]+\.[a-zA-Z]{2,} from offset i: the domain run is taken as
\* far as it goes and given back up to the last dot that two letters follow.
emailDomainEnd(t, i) ==
    Only({ IF dots = {} THEN NoMatch
           ELSE RunEnd(t, Only({p \in dots : \A q \in dots : q <= p}) + 1,
                       LetterSet) :
           dots \in {{p \in (i + 1)..(RunEnd(t, i, EmailDomainSet) - 1) :
                         /\ CharAt(t, p) = "."
                         /\ InClass(t, p + 1, LetterSet)
                         /\ InClass(t, p + 2, LetterSet)}} })

Step(t, i, item) ==
    CASE item.op = "firstof" ->
           IF \E k \in 1..Len(item.lits) :
                 slice(t, i, i + Len(item.lits[k])) = item.lits[k]
           THEN i + Len(item.lits[
                    CHOOSE k \in 1..Len(item.lits) :
                       /\ slice(t, i, i + Len(item.lits[k])) = item.lits[k]
                       /\ \A j \in 1..(k - 1) :
                             slice(t, i, i + Len(item.lits[j])) # item.lits[j]])
           ELSE NoMatch
      [] item.op = "opt" -> IF InClass(t, i, item.set) THEN i + 1 ELSE i
      [] item.op = "exact" ->
           IF \A k \in i..(i + item.n - 1) : InClass(t, k, item.set)
           THEN i + item.n ELSE NoMatch
      [] item.op = "star" -> RunEnd(t, i, item.set)
      [] item.op = "plus" ->
           IF InClass(t, i, item.set) THEN RunEnd(t, i, item.set) ELSE NoMatch
      [] item.op = "upto" ->
           IF InClass(t, i, item.set)
           THEN Min(RunEnd(t, i, item.set), i + item.n) ELSE NoMatch
      [] item.op = "ssnDept" ->
           IF InClass(t, i, DigitChars) /\ InClass(t, i + 1, DigitChars)
           THEN i + 2
           ELSE IF InClass(t, i, {"2"}) /\ InClass(t, i + 1, {"A", "B"})
                THEN i + 2 ELSE NoMatch
      [] item.op = "emailDomain" -> emailDomainEnd(t, i)

RECURSIVE matchItems(_, _, _)
matchItems(t, i, items) ==
    IF items = <<>> \/ i = NoMatch THEN i
    ELSE Only({ matchItems(t, j, Tail(items)) : j \in {Step(t, i, Head(items))} })

UrlItems == <<Lit("http"), Opt({"s"}), Lit("://"), Plus(UrlSet)>>
EmailItems == <<Plus(EmailLocalSet), Lit("@"), EmailDomain>>
IbanHeadItems == <<Exact(UpperSet, 2), Exact(DigitChars, 2), Opt(WhiteSet),
                   Exact(IbanSet, 4)>>
IbanGroupItems == <<Opt(WhiteSet), Exact(IbanSet, 4)>>
IbanTailItems == <<Opt(WhiteSet), UpTo(IbanSet, 4)>>
SsnItems == <<Exact({"1", "2"}, 1), Opt(WhiteSet), Exact(DigitChars, 2),
              Opt(WhiteSet), Exact(DigitChars, 2), Opt(WhiteSet), SsnDept,
              Opt(WhiteSet), Exact(DigitChars, 3), Opt(WhiteSet),
              Exact(DigitChars, 3), Opt(WhiteSet), Exact(DigitChars, 2)>>
PhoneFrItems == <<FirstOf(<<"+33", "0033", "0">>), Star(WhiteSet),
                  Exact(DigitChars \ {"0"}, 1),
                  Star(SepSet), Exact(DigitChars, 2),
                  Star(SepSet), Exact(DigitChars, 2),
                  Star(SepSet), Exact(DigitChars, 2),
                  Star(SepSet), Exact(DigitChars, 2)>>
PhoneUkItems == <<FirstOf(<<"+44", "0">>), Opt(SepSet), Exact(DigitChars, 4),
                  Opt(SepSet), Exact(DigitChars, 6)>>

\* The offsets after the 1st, 2nd, ... group (?:[\s]?[\dA-Z]{4}) taken from
\* offset i, at most n of them.
RECURSIVE ibanGroupEnds(_, _, _)
ibanGroupEnds(t, i, n) ==
    IF n = 0 THEN <<>>
    ELSE Only({ IF j = NoMatch THEN <<>>
                ELSE <<j>> \o ibanGroupEnds(t, j, n - 1) :
                j \in {matchItems(t, i, IbanGroupItems)} })

\* The IBAN pattern at offset i: as many groups as there are (at most 7, at
\* least 2), then the tail; when no character is left for the tail the last
\* group is given back and becomes the tail.
matchIban(t, i) ==
    Only({ IF h = NoMatch THEN NoMatch
           ELSE Only({ IF Len(ends) < 2 THEN NoMatch
                       ELSE Only({ IF tail # NoMatch THEN tail
                                   ELSE IF Len(ends) >= 3 THEN ends[Len(ends)]
                                   ELSE NoMatch :
                                   tail \in {matchItems(t, ends[Len(ends)],
                                                        IbanTailItems)} }) :
                       ends \in {ibanGroupEnds(t, h, 7)} }) :
           h \in {matchItems(t, i, IbanHeadItems)} })

PATTERNS ==
    << [type |-> "url", regex |-> "url"],
       [type |-> "email", regex |-> "email"],
       [type |-> "iban", regex |-> "iban"],
       [type |-> "ssn_fr", regex |-> "ssn_fr"],
       [type |-> "phone", regex |-> "phoneFr"],
       [type |-> "phone", regex |-> "phoneUk"] >>

matchAt(regex, t, i) ==
    CASE regex = "url" -> matchItems(t, i, UrlItems)
      [] regex = "email" -> matchItems(t, i, EmailItems)
      [] regex = "iban" -> matchIban(t, i)
      [] regex = "ssn_fr" -> matchItems(t, i, SsnItems)
      [] regex = "phoneFr" -> matchItems(t, i, PhoneFrItems)
      [] regex = "phoneUk" -> matchItems(t, i, PhoneUkItems)

\* The successive results of re.exec(text) for a global expression: the
\* leftmost match at or after lastIndex, then on from its end.
RECURSIVE execAll(_, _, _)
execAll(regex, t, lastIndex) ==
    Only({ IF starts = {} THEN <<>>
           ELSE Only({ <<[start |-> s, end |-> matchAt(regex, t, s)]>>
                          \o execAll(regex, t, matchAt(regex, t, s)) :
                       s \in {q \in starts : \A r \in starts : q <= r} }) :
           starts \in {{q \in lastIndex..(Len(t) - 1) :
                           matchAt(regex, t, q) # NoMatch}} })

\* s.replace(/\s/g, ""), one half of s after the other.
RECURSIVE stripWhitespace(_)
stripWhitespace(s) ==
    IF Len(s) <= 1 THEN (IF s \in WhiteSet THEN "" ELSE s)
    ELSE stripWhitespace(slice(s, 0, Len(s) \div 2))
            \o stripWhitespace(sliceFrom(s, Len(s) \div 2))

\* remainder = (remainder * 10 + digit) % 97 over the digits of numStr,
\* where a letter has contributed the two digits of its code minus 55.
RECURSIVE mod97(_, _)
mod97(s, remainder) ==
    IF s = "" THEN remainder
    ELSE IF Len(s) > 1
    THEN Only({ mod97(sliceFrom(s, Len(s) \div 2), r) :
                r \in {mod97(slice(s, 0, Len(s) \div 2), remainder)} })
    ELSE IF IsUpperLetter(s)
    THEN Only({ (((remainder * 10 + (v \div 10)) % 97) * 10 + (v % 10)) % 97 :
                v \in {9 + CHOOSE k \in 1..26 : UpperChars[k] = s} })
    ELSE (remainder * 10 + (CHOOSE d \in 0..9 : ToString(d) = s)) % 97

validateIbanChecksumAny(iban) == TRUE

validateIbanChecksum(iban) ==
    Only({ IF Len(cleaned) < 5 THEN FALSE
           ELSE mod97(sliceFrom(cleaned, 4) \o slice(cleaned, 0, 4), 0) = 1 :
           cleaned \in {toUpperCase(stripWhitespace(iban))} })

Overlaps(spans, start, end) ==
    \E k \in 1..Len(spans) : start < spans[k].end /\ end > spans[k].start

\* The while loop of one pattern over its matches ms.
RECURSIVE pushSpansAnywhere(_, _, _, _)
pushSpansAnywhere(t, patternSpans, type, ms) ==
    IF ms = <<>> THEN patternSpans
    ELSE pushSpansAnywhere(t,
            IF type = "iban"
               /\ ~validateIbanChecksum(slice(t, Head(ms).start, Head(ms).end))
            THEN patternSpans
            ELSE Append(patternSpans, [start |-> Head(ms).start,
                                       end |-> Head(ms).end, type |-> type]),
            type, Tail(ms))

RECURSIVE pushSpans(_, _, _, _)
pushSpans(t, patternSpans, type, ms) ==
    IF ms = <<>> THEN patternSpans
    ELSE Only({ pushSpans(t, next, type, Tail(ms)) :
                next \in {IF \/ Overlaps(patternSpans, Head(ms).start, Head(ms).end)
                             \/ /\ type = "iban"
                                /\ ~validateIbanChecksum(
                                       slice(t, Head(ms).start, Head(ms).end))
                          THEN patternSpans
                          ELSE Append(patternSpans,
                                      [start |-> Head(ms).start,
                                       end |-> Head(ms).end, type |-> type])} })

\* Phase 1: the for loop over PATTERNS from index k on.
RECURSIVE findPatternSpans(_, _, _)
findPatternSpans(t, k, patternSpans) ==
    IF k > Len(PATTERNS) THEN patternSpans
    ELSE Only({ findPatternSpans(t, k + 1, next) :
                next \in {pushSpans(t, patternSpans, PATTERNS[k].type,
                                    execAll(PATTERNS[k].regex, t, 0))} })

Token(text, start, end, kind, patternType) ==
    [text |-> text, start |-> start, end |-> end, kind |-> kind,
     patternType |-> patternType]

\* A word from offset i: a letter, then letters, apostrophes and hyphens as
\* far as the last letter among them.
wordEnd(seg, i) ==
    Only({ IF letters = {} THEN i + 1
           ELSE 1 + Only({p \in letters : \A q \in letters : q <= p}) :
           letters \in {{p \in (i + 1)..(RunEnd(seg, i + 1, WordInnerSet) - 1) :
                            CharAt(seg, p) \in LetterSet}} })

\* \d+(?:[.,]\d+)* from offset i.
RECURSIVE numberEnd(_, _)
numberEnd(seg, i) ==
    Only({ IF InClass(seg, d, {".", ","}) /\ InClass(seg, d + 1, DigitChars)
           THEN numberEnd(seg, d + 1)
           ELSE d :
           d \in {RunEnd(seg, i, DigitChars)} })

basicMatch(seg, i) ==
    IF InClass(seg, i, WhiteSet)
    THEN [end |-> RunEnd(seg, i, WhiteSet), kind |-> "whitespace"]
    ELSE IF InClass(seg, i, LetterSet)
    THEN [end |-> wordEnd(seg, i), kind |-> "word"]
    ELSE IF InClass(seg, i, DigitChars)
    THEN [end |-> numberEnd(seg, i), kind |-> "number"]
    ELSE [end |-> i + 1, kind |-> "punctuation"]

RECURSIVE splitFrom(_, _, _)
splitFrom(seg, from, i) ==
    IF i >= Len(seg) THEN <<>>
    ELSE Only({ <<Token(slice(seg, i, m.end), from + i, from + m.end, m.kind, "")>>
                   \o splitFrom(seg, from, m.end) :
                m \in {basicMatch(seg, i)} })

\* The tokens splitBasic pushes for text.slice(from, to).
splitBasic(text, from, to) == splitFrom(slice(text, from, to), from, 0)

\* Phase 2: the tokens from cursor on, spans sorted by start.
RECURSIVE buildTokens(_, _, _)
buildTokens(text, spans, cursor) ==
    IF spans = <<>>
    THEN IF cursor < Len(text) THEN splitBasic(text, cursor, Len(text)) ELSE <<>>
    ELSE (IF cursor < Head(spans).start
          THEN splitBasic(text, cursor, Head(spans).start) ELSE <<>>)
         \o <<Token(slice(text, Head(spans).start, Head(spans).end),
                    Head(spans).start, Head(spans).end, "pattern",
                    Head(spans).type)>>
         \o buildTokens(text, Tail(spans), Head(spans).end)

tokenize(text) ==
    Only({ buildTokens(text, sorted, 0) :
           sorted \in {sortByStart(findPatternSpans(text, 1, <<>>), 1)} })

\* substitute with the entities taken in list order (no sort).
RECURSIVE ReplaceAll(_, _)
ReplaceAll(result, sorted) ==
    IF sorted = <<>> THEN result
    ELSE LET entity == Head(sorted)
             alias == IF entity.acceptedAlias.set THEN entity.acceptedAlias.value
                      ELSE entity.proposedAlias
         IN  ReplaceAll(slice(result, 0, entity.start) \o alias
                            \o sliceFrom(result, entity.end),
                        Tail(sorted))

substituteUnsorted(text, ents) == ReplaceAll(text, ents)

\* substitute(text, entities)
substitute(text, ents) == ReplaceAll(text, sortByStart(ents, -1))

mapLocalTypeToEntityType(localType) ==
    CASE localType = "person_candidate" -> "person"
      [] localType = "company_candidate" -> "company"
      [] localType = "address_fragment" -> "address"
      [] localType \in {"email", "phone", "iban", "ssn"} -> localType
      [] OTHER -> "unknown"

\* Every result stored under key, matching or not.
MatchesOfAny(tr, key) == IF MapHas(tr, key) THEN tr[key] ELSE <<>>

\* The matching results stored under key, in order.
MatchesOf(tr, key) ==
    IF MapHas(tr, key) THEN SelectSeq(tr[key], LAMBDA r : r.match) ELSE <<>>

\* if (!touchstoneType) touchstoneType = r.type, over the matches in order:
\* the first type that is not empty, "" for none.
FirstTyped(matches) ==
    IF \E i \in DOMAIN matches : matches[i].type # ""
    THEN matches[CHOOSE i \in DOMAIN matches :
                    /\ matches[i].type # ""
                    /\ \A j \in 1..(i - 1) : matches[j].type = ""].type
    ELSE ""

GroupStart(group) ==
    CHOOSE m \in {group.tokens[t].start : t \in DOMAIN group.tokens} :
        \A t \in DOMAIN group.tokens : m <= group.tokens[t].start
GroupEnd(group) ==
    CHOOSE m \in {group.tokens[t].end : t \in DOMAIN group.tokens} :
        \A t \in DOMAIN group.tokens : m >= group.tokens[t].end

\* resolveGroup(group, touchstoneResults, aliasMap, aliasStyle): the entity,
\* and the alias map and counters as the call leaves them.
resolveGroup(group, tr, map, style, counters, p) ==
    IF group.skipTouchstone /\ group.localType # ""
    THEN LET type == mapLocalTypeToEntityType(group.localType)
             g == generateAlias(type, group.text, map, style, counters, p)
         IN  [entity |-> Entity(group.text, GroupStart(group), GroupEnd(group),
                                type, "high", <<"local:" \o group.localType>>,
                                g.alias),
              map |-> g.map, counters |-> g.counters]
    ELSE LET groupMatches == MatchesOf(tr, group.text)
             tokenMatches ==
                 Flatten([t \in DOMAIN group.tokens |->
                             MatchesOf(tr, group.tokens[t].text)])
             all == groupMatches \o tokenMatches
             sources == [i \in DOMAIN all |-> all[i].dict]
             touchstoneType ==
                 IF groupMatches # <<>> /\ groupMatches[Len(groupMatches)].type # ""
                 THEN groupMatches[Len(groupMatches)].type
                 ELSE FirstTyped(tokenMatches)
             lt == group.localType
             type ==
                 CASE lt = "company_candidate" -> "company"
                   [] lt = "person_candidate" -> "person"
                   [] lt = "address_fragment" -> "address"
                   [] OTHER ->
                        IF touchstoneType \in {"first_name", "surname"} THEN "person"
                        ELSE IF touchstoneType \in {"city", "commune"} THEN "city"
                        ELSE IF touchstoneType = "company" THEN "company"
                        ELSE "unknown"
             confidence ==
                 IF lt \in {"company_candidate", "person_candidate", "address_fragment"}
                 THEN IF touchstoneType # "" THEN "high" ELSE "medium"
                 ELSE IF type = "unknown" THEN "low" ELSE "medium"
             g == generateAlias(type, group.text, map, style, counters, p)
         IN  [entity |-> Entity(group.text, GroupStart(group), GroupEnd(group),
                                type, confidence,
                                IF sources # <<>> THEN sources
                                ELSE <<"local:candidate">>,
                                g.alias),
              map |-> g.map, counters |-> g.counters]

\* The while loop of mergeAdjacentPersons from index i (1-based) on.
RECURSIVE MergeFrom(_, _, _, _, _, _, _)
MergeFrom(sorted, i, merged, map, style, counters, p) ==
    IF i > Len(sorted)
    THEN [entities |-> merged, map |-> map, counters |-> counters]
    ELSE LET current == sorted[i]
         IN  IF /\ current.type = "person"
                /\ i + 1 <= Len(sorted)
                /\ sorted[i + 1].type = "person"
                /\ sorted[i + 1].start - current.end <= 3
             THEN LET next == sorted[i + 1]
                      mergedText == current.text \o " " \o next.text
                      g == generateAlias("person", mergedText, map, style, counters, p)
                      e == Entity(mergedText, current.start, next.end, "person",
                                  IF current.confidence = "high" \/ next.confidence = "high"
                                  THEN "high" ELSE "medium",
                                  Unique(current.sources \o next.sources), g.alias)
                  IN  MergeFrom(sorted, i + 2, Append(merged, e), g.map, style,
                                g.counters, p)
             ELSE MergeFrom(sorted, i + 1, Append(merged, current), map, style,
                            counters, p)

\* mergeAdjacentPersons(entities, aliasMap, aliasStyle)
mergeAdjacentPersons(ents, map, style, counters, p) ==
    IF Len(ents) < 2 THEN [entities |-> ents, map |-> map, counters |-> counters]
    ELSE MergeFrom(sortByStart(ents, 1), 1, <<>>, map, style, counters, p)

\* The for loop of assemble over the groups from index i on.
RECURSIVE ResolveFrom(_, _, _, _, _, _, _, _)
ResolveFrom(groups, i, tr, ents, map, style, counters, p) ==
    IF i > Len(groups) THEN [entities |-> ents, map |-> map, counters |-> counters]
    ELSE LET r == resolveGroup(groups[i], tr, map, style, counters, p)
         IN  ResolveFrom(groups, i + 1, tr, Append(ents, r.entity), r.map, style,
                         r.counters, p)

\* assemble(groups, touchstoneResults, aliasMap, aliasStyle)
assemble(groups, tr, map, style, counters, p) ==
    LET r == ResolveFrom(groups, 1, tr, <<>>, map, style, counters, p)
    IN  mergeAdjacentPersons(r.entities, r.map, style, r.counters, p)

\* ------------------------------------------------------------------------
\* Pipeline calls as far as aliases go (index.ts pipeline, assembler.ts)
\* ------------------------------------------------------------------------
SessionIds == {"s1", "s2"}
AliasStyles == {"realistic", "generic"}

Ent(type, text) == [type |-> type, text |-> text]

\* The entity lists (type, merged text) assemble resolves for the documents
\* the calls are run on.
DetectedLists ==
    { <<Ent("person", "Martin"), Ent("person", "Dupont")>>,
      <<Ent("city", "Lyon"), Ent("person", "Jean Dupont")>>,
      <<Ent("iban", "FR7630006"), Ent("unknown", "Dupont")>>,
      <<Ent("unknown", "Dupont"), Ent("unknown", "Morel")>> }

NoCall == [session |-> "", style |-> "", ents |-> <<>>, id |-> 0]

\* MemoryStore.getAliasMap: this.aliases.get(sessionId) ?? new Map()
getAliasMap(store, sessionId) == store[sessionId]

\* MemoryStore.setAliasMap: this.aliases.set(sessionId, map)
setAliasMap(store, sessionId, map) == [store EXCEPT ![sessionId] = map]

\* assemble's calls of generateAlias, one per resolved entity, in order; picks
\* holds the random draws of each call.
RECURSIVE AliasAll(_, _, _, _, _, _)
AliasAll(ents, map, counters, style, picks, out) ==
    IF ents = <<>> THEN [map |-> map, counters |-> counters, out |-> out]
    ELSE LET g == generateAlias(Head(ents).type, Head(ents).text, map, style,
                                counters, Head(picks))
         IN  AliasAll(Tail(ents), g.map, g.counters, style, Tail(picks),
                      Append(out, [type |-> Head(ents).type,
                                   text |-> Head(ents).text,
                                   proposedAlias |-> g.alias]))

AliasIdle ==
    /\ aliases = [s \in SessionIds |-> EmptyMap]
    /\ genericCounters = InitialCounters
    /\ aliasMap = EmptyMap
    /\ apc = "idle"
    /\ acall = NoCall
    /\ aout = <<>>
    /\ issued = {}
    /\ ncalls = 0

MixIdle ==
    /\ mixIn = [realTerms |-> <<>>, ratio |-> [num |-> 0, den |-> 1], maxBatch |-> 0]
    /\ mixOut = [mixed |-> <<>>, realSet |-> {}]
    /\ mpc = "off"

ClientIdle ==
    /\ doc = [text |-> "", groups |-> <<>>]
    /\ cfg = [maxBatchSize |-> 100, decoyRatio |-> [num |-> 7, den |-> 20],
              aliasStyle |-> "realistic"]
    /\ cache = EmptyMap
    /\ now = 0
    /\ cpc = "off"
    /\ pos = [g |-> 1, t |-> 0]
    /\ results = EmptyMap
    /\ termsToClassify = <<>>
    /\ batches = <<>>
    /\ bi = 0
    /\ useRest = FALSE
    /\ cur = [mixed |-> <<>>, realSet |-> {}]
    /\ posts = <<>>
    /\ tasks = {}
    /\ served = {}
    /\ misses = {}
    /\ stored = {}
    /\ unhandled = 0
    /\ nticks = 0
    /\ entities = <<>>
    /\ anonymizedText = ""

SubIdle ==
    /\ subText = ""
    /\ subEntities = <<>>
    /\ subOut = ""
    /\ subArgs = [text |-> "", entities |-> <<>>]
    /\ subRestored = ""
    /\ spc = "off"

TokIdle ==
    /\ tokText = ""
    /\ tokOut = <<>>
    /\ tpc = "off"

AsmIdle ==
    /\ asmGroups = <<>>
    /\ asmTr = EmptyMap
    /\ asmResolved = <<>>
    /\ asmOut = <<>>
    /\ asmpc = "off"

\* The recordDocument calls that may be in progress.
Writers == {1, 2}

\* null, where a KnownEntity reference is expected.
NullRef == 0

NoRecord ==
    [pc |-> "idle", documentId |-> "", entities |-> <<>>, i |-> 0, now |-> 0,
     entityId |-> "", existing |-> <<>>, known |-> NullRef, occurrences |-> <<>>]

EgIdle ==
    /\ gEntities = <<>>
    /\ gOccurrences = <<>>
    /\ gDocuments = {}
    /\ gObjs = <<>>
    /\ gClock = 0
    /\ gIds = 0
    /\ rec = [w \in Writers |-> NoRecord]
    /\ nrec = 0
    /\ gDetected = <<>>
    /\ gMatches = <<>>

CanIdle ==
    /\ canIn = ""
    /\ canOut = ""
    /\ canpc = "off"

ParIdle ==
    /\ parCounters = InitialCounters
    /\ parAliases = [s \in SessionIds |-> EmptyMap]
    /\ parCalls = [s \in SessionIds |->
                      [pc |-> "off", ents |-> <<>>, aliasMap |-> EmptyMap,
                       out |-> <<>>]]

StIdle ==
    /\ broken = "none"
    /\ storeFate = {}

DetIdle ==
    /\ detText = ""
    /\ detTokens = <<>>
    /\ detGroups = <<>>
    /\ detEntities = <<>>
    /\ detpc = "off"

notAlias == <<mixVars, clientVars, subVars, tokVars, asmVars, egVars, canVars, parVars, stVars, detVars>>
notMix == <<aliasVars, clientVars, subVars, tokVars, asmVars, egVars, canVars, parVars, stVars, detVars>>
notClient == <<aliasVars, mixVars, subVars, tokVars, asmVars, egVars, canVars, parVars, stVars, detVars>>
notSub == <<aliasVars, mixVars, clientVars, tokVars, asmVars, egVars, canVars, parVars, stVars, detVars>>
notTok == <<aliasVars, mixVars, clientVars, subVars, asmVars, egVars, canVars, parVars, stVars, detVars>>
notAsm == <<aliasVars, mixVars, clientVars, subVars, tokVars, egVars, canVars, parVars, stVars, detVars>>
notEg == <<aliasVars, mixVars, clientVars, subVars, tokVars, asmVars, canVars, parVars, stVars, detVars>>
notCan == <<aliasVars, mixVars, clientVars, subVars, tokVars, asmVars, egVars, parVars, stVars, detVars>>
notPar == <<aliasVars, mixVars, clientVars, subVars, tokVars, asmVars, egVars, canVars, stVars, detVars>>
notSt == <<aliasVars, mixVars, clientVars, subVars, tokVars, asmVars, egVars, canVars, parVars, detVars>>
notDet == <<aliasVars, mixVars, clientVars, subVars, tokVars, asmVars, egVars, canVars, parVars, stVars>>

AliasInit == AliasIdle /\ MixIdle /\ ClientIdle /\ SubIdle /\ TokIdle /\ AsmIdle /\ EgIdle /\ CanIdle /\ ParIdle /\ StIdle /\ DetIdle

\* pipeline(), up to its first await: resetAliasCounters(), getAliasMap().
PipelineStart ==
    /\ apc = "idle"
    /\ ncalls < MaxCalls
    /\ \E sid \in SessionIds, style \in AliasStyles, ents \in DetectedLists :
          /\ acall' = [session |-> sid, style |-> style, ents |-> ents,
                       id |-> ncalls + 1]
          /\ aliasMap' = getAliasMap(aliases, sid)
    /\ genericCounters' = resetAliasCounters(genericCounters)
    /\ ncalls' = ncalls + 1
    /\ apc' = "assemble"
    /\ UNCHANGED <<aliases, aout, issued, notAlias>>

\* pipeline() step 5: assemble(groups, touchstoneResults, aliasMap, style).
PipelineAssemble ==
    /\ apc = "assemble"
    /\ \E picks \in [1..Len(acall.ents) -> Picks] :
          LET r == AliasAll(acall.ents, aliasMap, genericCounters, acall.style,
                            picks, <<>>)
          IN  /\ aliasMap' = r.map
              /\ genericCounters' = r.counters
              /\ aout' = r.out
              /\ issued' = issued \cup
                    { [session |-> acall.session, call |-> acall.id,
                       text |-> r.out[i].text, alias |-> r.out[i].proposedAlias]
                      : i \in 1..Len(r.out) }
    /\ apc' = "persist"
    /\ UNCHANGED <<aliases, acall, ncalls, notAlias>>

\* pipeline() step 6: await store.setAliasMap(sessionId, aliasMap), and return.
PipelinePersist ==
    /\ apc = "persist"
    /\ aliases' = setAliasMap(aliases, acall.session, aliasMap)
    /\ apc' = "idle"
    /\ UNCHANGED <<genericCounters, aliasMap, acall, aout, issued, ncalls, notAlias>>

AliasNext == PipelineStart \/ PipelineAssemble \/ PipelinePersist

SpecAlias == AliasInit /\ [][AliasNext]_vars

\* ------------------------------------------------------------------------
\* C1: same original text, same alias, for the lifetime of an alias map.
\* Every alias generateAlias has returned for a text under a session's map is
\* the alias every later call returns for that text under that map, in the
\* same and in later sequential pipeline calls of the session, and the map
\* keeps mapping the text to it.
\* ------------------------------------------------------------------------
C1_SameTextSameAlias ==
    /\ \A r1 \in issued : \A r2 \in issued :
          (r1.session = r2.session /\ r1.text = r2.text) => r1.alias = r2.alias
    /\ \A r \in issued :
          LET held == IF apc # "idle" /\ acall.session = r.session
                      THEN aliasMap ELSE aliases[r.session]
          IN  MapHas(held, r.text) /\ held[r.text] = r.alias

\* Two pipeline calls of one session have both returned an alias for one text.
C1_Witness ==
    \E r1 \in issued : \E r2 \in issued :
        /\ r1.session = r2.session
        /\ r1.text = r2.text
        /\ r1.call # r2.call
        /\ apc = "idle"

\* ------------------------------------------------------------------------
\* mixDecoys called on its own, on every input within the bounds
\* ------------------------------------------------------------------------
MixWords == {"Dupont", "Morel"}
Ratios == {Ratio(0, 1), Ratio(7, 20), Ratio(1, 1), Ratio(2, 1)}

MixInit ==
    /\ AliasIdle
    /\ ClientIdle
    /\ SubIdle
    /\ TokIdle
    /\ AsmIdle
    /\ EgIdle
    /\ CanIdle
    /\ ParIdle
    /\ StIdle
    /\ DetIdle
    /\ mixIn \in [realTerms : SeqUpTo(MixWords, MaxRealTerms),
                  ratio : Ratios,
                  maxBatch : 0..MaxBatchBound]
    /\ mixOut = [mixed |-> <<>>, realSet |-> {}]
    /\ mpc = "input"

MixCall ==
    /\ mpc = "input"
    /\ \E rnd \in MixDraws(Max(MaxBatchBound, MaxRealTerms)) :
          mixOut' = mixDecoys(mixIn.realTerms, mixIn.ratio, mixIn.maxBatch, rnd)
    /\ mpc' = "mixed"
    /\ UNCHANGED <<mixIn, notMix>>

MixNext == MixCall

SpecMix == MixInit /\ [][MixNext]_vars

\* ------------------------------------------------------------------------
\* C2: mixed holds every real term (with its multiplicity) plus exactly
\* min(ceil(|realTerms| * ratio), max(0, maxBatch - |realTerms|)) decoys, so no
\* real term is dropped, and |mixed| <= maxBatch when |realTerms| <= maxBatch.
\* ------------------------------------------------------------------------
C2_DecoysNeverCrowdOut ==
    mpc = "mixed" =>
        LET real == mixIn.realTerms
            n == Len(real)
            budget == Min(CeilTimes(n, mixIn.ratio), Max(0, mixIn.maxBatch - n))
            mixed == mixOut.mixed
            extra(t) == Count(mixed, t) - Count(real, t)
        IN  /\ Len(mixed) = n + budget
            /\ \A t \in Range(real) \cup Range(mixed) :
                  /\ extra(t) >= 0
                  /\ extra(t) > 0 => t \in {generateDecoy(r) : r \in DecoyRolls}
            /\ n <= mixIn.maxBatch => Len(mixed) <= mixIn.maxBatch

\* A full batch: the decoys wanted do not fit, some are added, all real terms stay.
C2_Witness ==
    /\ mpc = "mixed"
    /\ Len(mixIn.realTerms) = 2
    /\ CeilTimes(2, mixIn.ratio) > mixIn.maxBatch - 2
    /\ Len(mixOut.mixed) = 3
    /\ mixOut.mixed[3] = mixIn.realTerms[1]

\* ------------------------------------------------------------------------
\* One pipeline call: classifyBatch and what follows it, await by await
\* ------------------------------------------------------------------------
\* The session the call is made for; generic aliases draw nothing at random.
ClientSession == "s1"
ClientPick == [a |-> 1, b |-> 1]

ClientRatios == {Ratio(0, 1), Ratio(1, 2), Ratio(2, 1)}

\* Cache contents left by earlier calls: entries written at time 0.
CachedEntry == [results |-> <<TResult("cache", "surname")>>, expiresAt |-> CACHE_TTL_MS]
CachePresets ==
    { [k \in keys |-> CachedEntry] :
        keys \in { {}, {"SARL Morel", "Lyon"},
                   {"Dupont", "Lyon", "M", "Morel", "SARL", "rue"} } }

Post(url, terms, b) == [url |-> url, terms |-> terms, batch |-> b, outcome |-> "pending"]

\* The POST being awaited is the last one made.
SetOutcome(ps, o) == [ps EXCEPT ![Len(ps)].outcome = o]

ClientInit ==
    /\ AliasIdle
    /\ MixIdle
    /\ SubIdle
    /\ TokIdle
    /\ AsmIdle
    /\ EgIdle
    /\ CanIdle
    /\ ParIdle
    /\ StIdle
    /\ DetIdle
    /\ doc \in Docs
    /\ cfg \in [maxBatchSize : 1..MaxBatchSize, decoyRatio : ClientRatios,
               aliasStyle : {"generic"}]
    /\ cache \in CachePresets
    /\ now = 0
    /\ cpc = "start"
    /\ pos = [g |-> 1, t |-> 0]
    /\ results = EmptyMap
    /\ termsToClassify = <<>>
    /\ batches = <<>>
    /\ bi = 0
    /\ useRest = FALSE
    /\ cur = [mixed |-> <<>>, realSet |-> {}]
    /\ posts = <<>>
    /\ tasks = {}
    /\ served = {}
    /\ misses = {}
    /\ stored = {}
    /\ unhandled = 0
    /\ nticks = 0
    /\ entities = <<>>
    /\ anonymizedText = ""

\* The head of the batch loop for batch b (lines 213-227, 241-243): mix the
\* decoys in and POST, to the REST endpoint when rest; or return the results
\* when the batches are exhausted.  ps is the POST history so far.
Proceed(bs, b, rest, ps) ==
    IF b > Len(bs)
    THEN /\ cpc' = "done"
         /\ bi' = b
         /\ cur' = cur
         /\ posts' = ps
    ELSE \E rnd \in ClientDraws :
            LET m == mixDecoys(bs[b], cfg.decoyRatio, cfg.maxBatchSize, rnd)
            IN  /\ cur' = m
                /\ posts' = Append(ps, Post(IF rest THEN "rest" ELSE "connect",
                                            m.mixed, b))
                /\ cpc' = IF rest THEN "awaitRest" ELSE "awaitConnect"
                /\ bi' = b

\* After the lookup loop (lines 202-211): return when nothing is left to
\* classify, else deduplicate, split, and start the first batch.
AfterLookups(terms) ==
    IF terms = <<>>
    THEN /\ cpc' = "done"
         /\ UNCHANGED <<batches, bi, cur, posts>>
    ELSE /\ batches' = splitIntoBatches(Unique(terms), cfg.maxBatchSize, cfg.decoyRatio)
         /\ Proceed(batches', 1, FALSE, posts)

\* pipeline() up to classifyBatch's first await (index.ts 46-72, lines 176-184).
PipelineBegin ==
    /\ cpc = "start"
    /\ genericCounters' = resetAliasCounters(genericCounters)
    /\ aliasMap' = getAliasMap(aliases, ClientSession)
    /\ LET next == SeekFrom(doc.groups, 1, 0, results)
       IN  IF next.g > Len(doc.groups)
           THEN /\ AfterLookups(termsToClassify)
                /\ pos' = next
           ELSE /\ cpc' = "lookup"
                /\ pos' = next
                /\ UNCHANGED <<batches, bi, cur, posts>>
    /\ UNCHANGED <<doc, cfg, cache, now, results, termsToClassify, useRest, tasks,
                   served, misses, stored, unhandled, nticks, entities,
                   anonymizedText, aliases, apc, acall, aout, issued, ncalls,
                   mixVars, subVars, tokVars, asmVars, egVars, canVars, parVars, stVars, detVars>>

\* One `await store.getCachedClassification(...)` of the lookup loop returns
\* (lines 184-199), and the loop runs on to its next await.
Lookup ==
    /\ cpc = "lookup"
    /\ LET g == doc.groups[pos.g]
           term == IF pos.t = 0 THEN g.text ELSE g.tokens[pos.t].text
           r == getCachedClassification(cache, term, now)
           res == IF r.hit THEN MapSet(results, term, r.results) ELSE results
           terms == IF ~r.hit /\ pos.t # 0 THEN Append(termsToClassify, term)
                    ELSE termsToClassify
           next == IF pos.t = 0 /\ r.hit THEN SeekFrom(doc.groups, pos.g + 1, 0, res)
                   ELSE SeekFrom(doc.groups, pos.g, pos.t + 1, res)
       IN  /\ cache' = r.cache
           /\ results' = res
           /\ termsToClassify' = terms
           /\ served' = IF r.hit
                        THEN served \cup {[term |-> term, at |-> now,
                                           expiresAt |-> r.expiresAt,
                                           results |-> r.results]}
                        ELSE served
           /\ misses' = IF ~r.hit /\ pos.t # 0 THEN misses \cup {term} ELSE misses
           /\ pos' = next
           /\ IF next.g > Len(doc.groups)
              THEN AfterLookups(terms)
              ELSE /\ cpc' = "lookup"
                   /\ UNCHANGED <<batches, bi, cur, posts>>
    /\ UNCHANGED <<doc, cfg, now, useRest, tasks, stored, unhandled, nticks,
                   entities, anonymizedText, notClient>>

\* The Connect POST answers 200 with a well-formed body (lines 240, 274-292):
\* parseAndStoreResults is called and not awaited, so it runs to its first
\* await and the rest of it becomes a task of its own.
ConnectOk ==
    /\ cpc = "awaitConnect"
    /\ LET todo == RealEntries(ResponseEntries(cur.mixed), cur.realSet)
           st0 == [results |-> results, cache |-> cache, stored |-> stored]
           st == IF todo = <<>> THEN st0 ELSE StoreOne(st0, Head(todo), bi, now)
       IN  /\ results' = st.results
           /\ cache' = st.cache
           /\ stored' = st.stored
           /\ tasks' = IF Len(todo) > 1
                       THEN tasks \cup {[batch |-> bi, rest |-> Tail(todo)]}
                       ELSE tasks
    /\ Proceed(batches, bi + 1, FALSE, SetOutcome(posts, "ok"))
    /\ UNCHANGED <<doc, cfg, now, pos, termsToClassify, batches, useRest, served,
                   misses, unhandled, nticks, entities, anonymizedText, notClient>>

\* The Connect POST answers 200 with a body JSON.parse or Object.entries
\* rejects: the unawaited parseAndStoreResults promise rejects unobserved.
ConnectMalformed ==
    /\ cpc = "awaitConnect"
    /\ unhandled' = unhandled + 1
    /\ Proceed(batches, bi + 1, FALSE, SetOutcome(posts, "malformed"))
    /\ UNCHANGED <<doc, cfg, cache, now, pos, results, termsToClassify, batches,
                   useRest, tasks, served, misses, stored, nticks, entities, anonymizedText, notClient>>

\* The Connect POST answers 404 (lines 229-233): the same mixed batch goes to
\* the REST endpoint, and every later batch too.
Connect404 ==
    /\ cpc = "awaitConnect"
    /\ useRest' = TRUE
    /\ posts' = Append(SetOutcome(posts, "404"), Post("rest", cur.mixed, bi))
    /\ cpc' = "awaitRest"
    /\ UNCHANGED <<doc, cfg, cache, now, pos, results, termsToClassify, batches, bi,
                   cur, tasks, served, misses, stored, unhandled, nticks, entities, anonymizedText,
                   notClient>>

\* The Connect POST answers another status (lines 235-238): return results.
ConnectOtherStatus ==
    /\ cpc = "awaitConnect"
    /\ posts' = SetOutcome(posts, "status")
    /\ cpc' = "done"
    /\ UNCHANGED <<doc, cfg, cache, now, pos, results, termsToClassify, batches, bi,
                   useRest, cur, tasks, served, misses, stored, unhandled, nticks,
                   entities, anonymizedText, notClient>>

\* A classifyBatch without the catch: the exception rejects the pipeline call.
ConnectThrowPropagates ==
    /\ cpc = "awaitConnect"
    /\ posts' = SetOutcome(posts, "throw")
    /\ cpc' = "rejected"
    /\ UNCHANGED <<doc, cfg, cache, now, pos, results, termsToClassify, batches, bi,
                   useRest, cur, tasks, served, misses, stored, unhandled, nticks,
                   entities, anonymizedText, notClient>>

\* The Connect POST throws (network error, timeout, abort): lines 244-247.
ConnectThrow ==
    /\ cpc = "awaitConnect"
    /\ Proceed(batches, bi + 1, FALSE, SetOutcome(posts, "throw"))
    /\ UNCHANGED <<doc, cfg, cache, now, pos, results, termsToClassify, batches,
                   useRest, tasks, served, misses, stored, unhandled, nticks,
                   entities, anonymizedText, notClient>>

\* classifyBatchRest: 200 with a well-formed body (line 319): the parse is
\* awaited, every surviving entry is stored before the loop goes on.
RestOk ==
    /\ cpc = "awaitRest"
    /\ LET todo == RealEntries(ResponseEntries(cur.mixed), cur.realSet)
           st == StoreAll([results |-> results, cache |-> cache, stored |-> stored],
                          todo, bi, now)
       IN  /\ results' = st.results
           /\ cache' = st.cache
           /\ stored' = st.stored
    /\ Proceed(batches, bi + 1, TRUE, SetOutcome(posts, "ok"))
    /\ UNCHANGED <<doc, cfg, now, pos, termsToClassify, batches, useRest, tasks,
                   served, misses, unhandled, nticks, entities, anonymizedText, notClient>>

\* A REST fallback that posts the batch again after a failure, up to twice.
RestFailsRetry(outcome) ==
    /\ cpc = "awaitRest"
    /\ IF Cardinality({i \in DOMAIN posts : posts[i].batch = bi}) < 4
       THEN Proceed(batches, bi, TRUE, SetOutcome(posts, outcome))
       ELSE Proceed(batches, bi + 1, TRUE, SetOutcome(posts, outcome))
    /\ UNCHANGED <<doc, cfg, cache, now, pos, results, termsToClassify, batches,
                   useRest, tasks, served, misses, stored, unhandled, nticks,
                   entities, anonymizedText, notClient>>

\* classifyBatchRest gives the batch up: the awaited parse throws on the body,
\* the status is not 200, or the POST throws (lines 314-322).
RestFails(outcome) ==
    /\ cpc = "awaitRest"
    /\ Proceed(batches, bi + 1, TRUE, SetOutcome(posts, outcome))
    /\ UNCHANGED <<doc, cfg, cache, now, pos, results, termsToClassify, batches,
                   useRest, tasks, served, misses, stored, unhandled, nticks,
                   entities, anonymizedText, notClient>>

RestMalformed == RestFails("malformed")
RestOtherStatus == RestFails("status")
RestThrow == RestFails("throw")

\* An unawaited parseAndStoreResults resumes after its await and handles its
\* next entry (lines 284-291).
ParseTaskStep ==
    /\ \E task \in tasks :
          LET st == StoreOne([results |-> results, cache |-> cache, stored |-> stored],
                             Head(task.rest), task.batch, now)
          IN  /\ results' = st.results
              /\ cache' = st.cache
              /\ stored' = st.stored
              /\ tasks' = (tasks \ {task}) \cup
                            (IF Len(task.rest) > 1
                             THEN {[task EXCEPT !.rest = Tail(task.rest)]} ELSE {})
    /\ UNCHANGED <<doc, cfg, now, cpc, pos, termsToClassify, batches, bi, useRest,
                   cur, posts, served, misses, unhandled, nticks, entities, anonymizedText, notClient>>

\* Time passes while the call is suspended on a cache lookup: the clock is
\* read by the lookups that follow and by the cache writes after them.
Tick ==
    /\ cpc = "lookup"
    /\ nticks < MaxTicks
    /\ \E d \in {CACHE_TTL_MS, CACHE_TTL_MS + 1} : now' = now + d
    /\ nticks' = nticks + 1
    /\ UNCHANGED <<doc, cfg, cache, cpc, pos, results, termsToClassify, batches, bi,
                   useRest, cur, posts, tasks, served, misses, stored, unhandled,
                   entities, anonymizedText, notClient>>

\* classifyBatch's promise has resolved: pipeline() assembles the entities
\* from the result map as it is now, persists the alias map, substitutes and
\* resolves (index.ts 75-89).
PipelineResolve ==
    /\ cpc = "done"
    /\ \E a \in {assemble(doc.groups, results, aliasMap, cfg.aliasStyle,
                          genericCounters, ClientPick)} :
           /\ entities' = a.entities
           /\ aliasMap' = a.map
           /\ genericCounters' = a.counters
           /\ aliases' = setAliasMap(aliases, ClientSession, a.map)
           /\ anonymizedText' = substitute(doc.text, a.entities)
    /\ cpc' = "resolved"
    /\ UNCHANGED <<doc, cfg, cache, now, pos, results, termsToClassify, batches, bi,
                   useRest, cur, posts, tasks, served, misses, stored, unhandled,
                   nticks, apc, acall, aout, issued, ncalls, mixVars, subVars, tokVars,
                   asmVars, egVars, canVars, parVars, stVars, detVars>>

ClientNext ==
    \/ PipelineBegin \/ Lookup
    \/ ConnectOk \/ ConnectMalformed \/ Connect404 \/ ConnectOtherStatus \/ ConnectThrow
    \/ RestOk \/ RestMalformed \/ RestOtherStatus \/ RestThrow
    \/ ParseTaskStep \/ Tick \/ PipelineResolve

Spec == ClientInit /\ [][ClientNext]_vars

\* ------------------------------------------------------------------------
\* Properties of classifyBatch
\* ------------------------------------------------------------------------
Groups == {doc.groups[i] : i \in DOMAIN doc.groups}
PostedTerms == UNION {Range(posts[i].terms) : i \in DOMAIN posts}
BatchReal(b) == Range(batches[b])
RealTerms == UNION {BatchReal(b) : b \in DOMAIN batches}
PostsOf(b) == {i \in DOMAIN posts : posts[i].batch = b}
DecoyPool == {generateDecoy(roll) : roll \in DecoyRolls}
ServedTerms == {s.term : s \in served}
Returned == cpc \in {"done", "resolved"}

\* The texts of the word tokens of the groups not marked skipTouchstone.
SendableWords ==
    {g.tokens[t].text : <<g, t>> \in
        {<<h, u>> \in Groups \X (1..8) :
            /\ ~h.skipTouchstone
            /\ u \in DOMAIN h.tokens
            /\ h.tokens[u].kind = "word"}}

C4_DecoysStripped ==
    /\ \A w \in stored : w.term \in BatchReal(w.batch)
    /\ \A k \in DOMAIN results :
          k \in ServedTerms \/ \E w \in stored : w.term = k
    /\ \A term \in PostedTerms \ RealTerms :
          /\ term \notin {w.term : w \in stored}
          /\ MapHas(results, term) => term \in ServedTerms

\* A well-formed response that classified a decoy has been parsed to the end
\* and its real term stored.
C4_Witness ==
    /\ Returned
    /\ tasks = {}
    /\ \E i \in DOMAIN posts :
          /\ posts[i].outcome = "ok"
          /\ \E term \in Range(posts[i].terms) \ RealTerms : ServerResults(term) # <<>>
          /\ \E w \in stored : w.batch = posts[i].batch

\* The groups detectLocal's pattern pass made (email, phone, iban, ssn, url).
PatternGroups == {g \in Groups : g.skipTouchstone /\ g.localType # ""}

\* C5: the pipeline call never rejects on a transport failure, and once it
\* has resolved every pattern group is among the entities with its own text
\* and span and confidence high, its text in no POST.
C5_LocalOnlyOnFailure ==
    /\ cpc # "rejected"
    /\ \A g \in PatternGroups : g.text \notin PostedTerms
    /\ cpc = "resolved" =>
          \A g \in PatternGroups :
             \E i \in DOMAIN entities :
                /\ entities[i].text = g.text
                /\ entities[i].start = GroupStart(g)
                /\ entities[i].end = GroupEnd(g)
                /\ entities[i].confidence = "high"

\* The call resolved for a document with a pattern group after one POST
\* threw and another was answered 404 with the REST POST failing too.
C5_Witness ==
    /\ cpc = "resolved"
    /\ PatternGroups # {}
    /\ \E i \in DOMAIN posts : posts[i].url = "connect" /\ posts[i].outcome = "throw"
    /\ \E i \in DOMAIN posts :
          /\ posts[i].outcome = "404"
          /\ posts[i + 1].outcome \in {"throw", "status"}

\* C6: when classifyBatch has returned, every batch has been sent: a POST
\* ending in a status other than 200 and 404, or in an exception, gives up
\* its own batch only.
C6_EveryBatchStillSent ==
    Returned => \A b \in DOMAIN batches : PostsOf(b) # {}

\* C7: a Connect POST answered 404 is followed at once by one REST POST of
\* the same mixed batch, whose results are used; no batch is posted to REST
\* twice, nor posted more than twice in all.
C7_OneRestFallback ==
    /\ \A i \in DOMAIN posts :
          posts[i].url = "connect" /\ posts[i].outcome = "404" =>
             /\ i + 1 \in DOMAIN posts
             /\ posts[i + 1].url = "rest"
             /\ posts[i + 1].terms = posts[i].terms
             /\ posts[i + 1].batch = posts[i].batch
    /\ \A i \in DOMAIN posts :
          posts[i].url = "rest" /\ posts[i].outcome = "ok" =>
             \A term \in BatchReal(posts[i].batch) :
                MapHas(results, term) /\ results[term] = ServerResults(term)
    /\ \A b \in DOMAIN batches :
          /\ Cardinality(PostsOf(b)) <= 2
          /\ Cardinality({i \in PostsOf(b) : posts[i].url = "rest"}) <= 1

\* A batch answered 404 whose REST POST failed, and classifyBatch returned.
C7_Witness ==
    /\ Returned
    /\ \E i \in DOMAIN posts :
          /\ posts[i].outcome = "404"
          /\ posts[i + 1].outcome \in {"throw", "status", "malformed"}
    /\ \E i \in DOMAIN posts : posts[i].url = "rest" /\ posts[i].outcome = "ok"

\* C8: no POST body lists more than maxBatchSize terms, every POST carries
\* the real terms of its batch, and the batches, in order, are the
\* deduplicated uncached terms, each in exactly one batch.
C8_BatchesBoundedAndPartition ==
    /\ \A i \in DOMAIN posts :
          /\ Len(posts[i].terms) <= cfg.maxBatchSize
          /\ BatchReal(posts[i].batch) \subseteq Range(posts[i].terms)
    /\ posts # <<>> =>
          /\ Flatten(batches) = Unique(termsToClassify)
          /\ \A term \in Range(termsToClassify) :
                Cardinality({b \in DOMAIN batches : term \in BatchReal(b)}) = 1
          /\ \A b \in DOMAIN batches : batches[b] # <<>>

\* More uncached terms than one POST may hold, all batches sent.
C8_Witness ==
    /\ Returned
    /\ Cardinality(Range(termsToClassify)) > cfg.maxBatchSize
    /\ Len(termsToClassify) > Cardinality(Range(termsToClassify))
    /\ \A b \in DOMAIN batches : PostsOf(b) # {}

\* C9: a term served from the cache was served no later than its expiry, is
\* a real term of no batch, and keeps its cached results in the result map;
\* when no looked-up token missed the cache no POST is made.
C9_CacheServedNotSent ==
    /\ \A s \in served :
          /\ s.at <= s.expiresAt
          /\ s.term \notin RealTerms
          /\ MapHas(results, s.term) /\ results[s.term] = s.results
    /\ misses = {} => posts = <<>>
    /\ RealTerms \subseteq misses

\* One term was served from the cache at its expiry instant, another was
\* not cached and was sent, and classifyBatch returned.
C9_Witness ==
    /\ Returned
    /\ \E s \in served : s.at = s.expiresAt
    /\ misses # {}
    /\ posts # <<>>

\* ------------------------------------------------------------------------
\* anonymize's alias table and deanonymize (anonymize.ts)
\* ------------------------------------------------------------------------
\* An insertion-ordered string-keyed table (a Record or a Map of the source)
\* is a sequence of [key, value] pairs: setting a key that is present
\* replaces its value in place, setting a new key appends.
RECURSIVE TableSet(_, _, _)
TableSet(table, key, value) ==
    IF table = <<>> THEN <<[key |-> key, value |-> value]>>
    ELSE IF Head(table).key = key
         THEN <<[key |-> key, value |-> value]>> \o Tail(table)
         ELSE <<Head(table)>> \o TableSet(Tail(table), key, value)

\* aliasTable[entity.text] = entity.acceptedAlias ?? entity.proposedAlias
RECURSIVE aliasTableFrom(_, _)
aliasTableFrom(ents, table) ==
    IF ents = <<>> THEN table
    ELSE aliasTableFrom(Tail(ents),
            TableSet(table, Head(ents).text,
                     IF Head(ents).acceptedAlias.set
                     THEN Head(ents).acceptedAlias.value
                     ELSE Head(ents).proposedAlias))

aliasTableOf(ents) == aliasTableFrom(ents, <<>>)

\* reverseMap.set(alias, original) over Object.entries(aliasTable)
RECURSIVE reverseMapFrom(_, _)
reverseMapFrom(table, rev) ==
    IF table = <<>> THEN rev
    ELSE reverseMapFrom(Tail(table),
            TableSet(rev, Head(table).value, Head(table).key))

\* [...reverseMap.entries()].sort(([a], [b]) => b.length - a.length): a
\* stable insertion of each entry behind the entries at least as long.
RECURSIVE InsertByLength(_, _)
InsertByLength(sorted, e) ==
    IF sorted = <<>> THEN <<e>>
    ELSE IF Len(Head(sorted).key) >= Len(e.key)
         THEN <<Head(sorted)>> \o InsertByLength(Tail(sorted), e)
         ELSE <<e>> \o sorted

RECURSIVE sortByAliasLength(_, _)
sortByAliasLength(entries, sorted) ==
    IF entries = <<>> THEN sorted
    ELSE sortByAliasLength(Tail(entries), InsertByLength(sorted, Head(entries)))

\* s.split(sep).join(rep): every occurrence of sep, scanned left to right
\* without overlap, becomes rep; an empty sep splits s into its characters.
RECURSIVE splitJoin(_, _, _)
splitJoin(s, sep, r) ==
    IF sep = ""
    THEN IF Len(s) <= 1 THEN s
         ELSE CharAt(s, 0) \o r \o splitJoin(sliceFrom(s, 1), sep, r)
    ELSE IF Len(s) < Len(sep) THEN s
    ELSE IF slice(s, 0, Len(sep)) = sep
         THEN r \o splitJoin(sliceFrom(s, Len(sep)), sep, r)
         ELSE CharAt(s, 0) \o splitJoin(sliceFrom(s, 1), sep, r)

RECURSIVE RestoreAll(_, _)
RestoreAll(result, sortedAliases) ==
    IF sortedAliases = <<>> THEN result
    ELSE RestoreAll(splitJoin(result, Head(sortedAliases).key,
                              Head(sortedAliases).value),
                    Tail(sortedAliases))

deanonymize(anonymized, aliasTable) ==
    RestoreAll(anonymized,
               sortByAliasLength(reverseMapFrom(aliasTable, <<>>), <<>>))

\* ------------------------------------------------------------------------
\* substitute called on its own
\* ------------------------------------------------------------------------
SubTexts == {"", "abcde"}
ProposedAliases == {"X", "WXYZ"}
AcceptedAliases == {NotAccepted, Accepted(""), Accepted("QQ")}

\* The spans [s, e) of text, and the entities that can stand on them: an
\* entity's span covers at least one token, and no token is empty.
Spans(text) == {sp \in (0..Len(text)) \X (0..Len(text)) : sp[1] < sp[2]}

SubEntitiesOf(text) ==
    { [Entity(slice(text, sp[1], sp[2]), sp[1], sp[2], "unknown", "low",
              <<"local:candidate">>, pa)
          EXCEPT !.acceptedAlias = aa] :
        sp \in Spans(text), pa \in ProposedAliases, aa \in AcceptedAliases }

NonOverlapping(ents) ==
    \A i, j \in DOMAIN ents :
        i # j => ents[i].end <= ents[j].start \/ ents[j].end <= ents[i].start

SubInit ==
    /\ AliasIdle
    /\ MixIdle
    /\ ClientIdle
    /\ TokIdle
    /\ AsmIdle
    /\ EgIdle
    /\ CanIdle
    /\ ParIdle
    /\ StIdle
    /\ DetIdle
    /\ subText \in SubTexts
    /\ subEntities \in
          {es \in SeqUpTo(SubEntitiesOf(subText), MaxSubEntities) :
              NonOverlapping(es)}
    /\ subOut = ""
    /\ subArgs = [text |-> subText, entities |-> subEntities]
    /\ subRestored = ""
    /\ spc = "input"

\* substitute(text, entities) is called and returns: it sorts a copy of the
\* list and builds new strings, so the caller's arguments are as before.
SubCall ==
    /\ spc = "input"
    /\ subOut' = substitute(subText, subEntities)
    /\ subArgs' = [text |-> subText, entities |-> subEntities]
    /\ spc' = "done"
    /\ UNCHANGED <<subText, subEntities, subRestored, notSub>>

\* The alias table anonymize() returns next to the anonymized text, handed
\* to deanonymize together with that text.
SubRestore ==
    /\ spc = "done"
    /\ subRestored' = deanonymize(subOut, aliasTableOf(subEntities))
    /\ spc' = "restored"
    /\ UNCHANGED <<subText, subEntities, subOut, subArgs, notSub>>

SubNext == SubCall \/ SubRestore

SpecSub == SubInit /\ [][SubNext]_vars

AliasUsed(entity) ==
    IF entity.acceptedAlias.set THEN entity.acceptedAlias.value
    ELSE entity.proposedAlias

\* The text rebuilt left to right: asc holds the entities by ascending start,
\* cursor is the offset of the original text reached so far.
RECURSIVE Rebuilt(_, _, _)
Rebuilt(text, asc, cursor) ==
    IF asc = <<>> THEN sliceFrom(text, cursor)
    ELSE slice(text, cursor, Head(asc).start) \o AliasUsed(Head(asc))
            \o Rebuilt(text, Tail(asc), Head(asc).end)

\* C10: for entities with pairwise non-overlapping spans inside the text, in
\* any list order, substitute returns the text with each span replaced by
\* the accepted alias if present and the proposed alias otherwise, and every
\* character outside the spans kept in place and order; with no entity the
\* text comes back as it was; the arguments are left as they were.
C10_SubstituteReplacesSpans ==
    spc = "done" =>
       /\ subOut = Rebuilt(subText, sortByStart(subEntities, 1), 0)
       /\ subEntities = <<>> => subOut = subText
       /\ subArgs = [text |-> subText, entities |-> subEntities]

\* Two entities listed in ascending order, their aliases longer and shorter
\* than their spans, one of them with an accepted alias.
C10_Witness ==
    /\ spc = "done"
    /\ Len(subEntities) = 2
    /\ subEntities[1].start < subEntities[2].start
    /\ Len(AliasUsed(subEntities[1])) > subEntities[1].end - subEntities[1].start
    /\ Len(AliasUsed(subEntities[2])) < subEntities[2].end - subEntities[2].start
    /\ subEntities[1].acceptedAlias.set
    /\ subOut # subText

\* s occurs in t as a substring.
Contains(t, s) ==
    \E i \in 0..(Len(t) - Len(s)) : slice(t, i, i + Len(s)) = s

\* The table maps each entity's text to the alias used for that entity:
\* two entities with the same text carry the same alias.
TableMapsEachText(ents) ==
    \A i, j \in DOMAIN ents :
        ents[i].text = ents[j].text => AliasUsed(ents[i]) = AliasUsed(ents[j])

\* Every entity is replaced by at least one character.
AliasesNonEmpty(ents) == \A i \in DOMAIN ents : AliasUsed(ents[i]) # ""

\* C11: for entities with distinct, non-overlapping spans and the alias table
\* that maps each entity's text to the (non-empty) alias used for it,
\* deanonymize applied to substitute's output contains every original entity
\* text as a substring.
C11_RoundTripRestoresTexts ==
    (/\ spc = "restored"
     /\ TableMapsEachText(subEntities)
     /\ AliasesNonEmpty(subEntities)) =>
        \A i \in DOMAIN subEntities :
            Contains(subRestored, subEntities[i].text)

\* ------------------------------------------------------------------------
\* tokenize called on its own
\* ------------------------------------------------------------------------
\* Texts are made of at most MaxPieces pieces put end to end: IBAN-shaped
\* strings with a right and a wrong check number, with and without a phone
\* number among their digits, and strings of every other token kind.
TokPieces ==
    { "GB15 ABCD EFGH IJKL M", "GB16 ABCD EFGH IJKL M",
      "FR57 0612 3456 7890 1", "FR58 0612 3456 7890 1",
      "DE84AB12CD34EF56G",
      "1 85 05 78 006 084 36", "06 12 34 56 78", "a@b.fr", "http://x.fr/a",
      "Jean-Pierre", "12,5", "!", " " }

RECURSIVE Concat(_)
Concat(pieces) ==
    IF pieces = <<>> THEN "" ELSE Head(pieces) \o Concat(Tail(pieces))

TokInit ==
    /\ AliasIdle
    /\ MixIdle
    /\ ClientIdle
    /\ SubIdle
    /\ AsmIdle
    /\ EgIdle
    /\ CanIdle
    /\ ParIdle
    /\ StIdle
    /\ DetIdle
    /\ tokText \in {Concat(ps) : ps \in SeqUpTo(TokPieces, MaxPieces)}
    /\ tokOut = <<>>
    /\ tpc = "input"

TokCall ==
    /\ tpc = "input"
    /\ tokOut' = tokenize(tokText)
    /\ tpc' = "done"
    /\ UNCHANGED <<tokText, notTok>>

TokNext == TokCall

SpecTok == TokInit /\ [][TokNext]_vars

PatternTokens == {k \in DOMAIN tokOut : tokOut[k].kind = "pattern"}

\* C12: the tokens of tokenize(text) partition the text: the first starts at
\* 0, each starts where the previous one ends, the last ends at the text's
\* length, none is empty, each token's text is the text between its start
\* and end; pattern tokens never overlap; the empty text gives no token.
C12_TokensPartitionText ==
    tpc = "done" =>
       /\ tokText = "" <=> tokOut = <<>>
       /\ tokOut # <<>> =>
             /\ tokOut[1].start = 0
             /\ tokOut[Len(tokOut)].end = Len(tokText)
       /\ \A k \in DOMAIN tokOut :
             /\ tokOut[k].start < tokOut[k].end
             /\ tokOut[k].text = slice(tokText, tokOut[k].start, tokOut[k].end)
             /\ k > 1 => tokOut[k].start = tokOut[k - 1].end
       /\ \A j, k \in PatternTokens :
             j # k => \/ tokOut[j].end <= tokOut[k].start
                      \/ tokOut[k].end <= tokOut[j].start

\* An IBAN token over digits the phone pattern matches too (the later match
\* is refused), next to another pattern token.
C12_Witness ==
    /\ tpc = "done"
    /\ \E k \in PatternTokens :
          /\ tokOut[k].patternType = "iban"
          /\ \E m \in Range(execAll("phoneFr", tokText, 0)) :
                m.start < tokOut[k].end /\ m.end > tokOut[k].start
    /\ Cardinality(PatternTokens) >= 2

\* The whole of s has the shape of the IBAN pattern: two capitals, two
\* digits, a group of four, g further groups of four (2 <= g <= 7) and a
\* tail of n characters (1 <= n <= 4), each part after an optional space.
RECURSIVE AfterGroups(_, _, _)
AfterGroups(s, i, g) ==
    IF g = 0 \/ i = NoMatch THEN i
    ELSE AfterGroups(s, matchItems(s, i, <<Opt(WhiteSet), Exact(IbanSet, 4)>>), g - 1)

IbanShaped(s) ==
    \E g \in 2..7, n \in 1..4 :
        matchItems(s, AfterGroups(s, matchItems(s, 0, IbanHeadItems), g),
                   <<Opt(WhiteSet), Exact(IbanSet, n)>>) = Len(s)

\* The number a character stands for (A = 10, ..., Z = 35), and the remainder
\* modulo 97 of the number the characters of s spell.
CharValue(c) ==
    IF c \in DigitChars THEN CHOOSE d \in 0..9 : ToString(d) = c
    ELSE 9 + CHOOSE k \in 1..26 : UpperChars[k] = c

\* The characters of s that are not spaces, as a sequence of numbers, with
\* the first four moved to the end.
IbanValues(s) ==
    Only({ [k \in 1..Cardinality(idx) |->
              CharValue(CharAt(s,
                 Only({i \in idx :
                    Cardinality({j \in idx : j < i}) = (k + 3) % Cardinality(idx)})))] :
           idx \in {{i \in 0..(Len(s) - 1) : CharAt(s, i) \notin WhiteSet}} })

\* 10^n modulo 97.
RECURSIVE Pow10(_)
Pow10(n) == IF n = 0 THEN 1 ELSE (10 * Pow10(n - 1)) % 97

\* The number of decimal digits written after position k of vs.
DigitsAfter(vs, k) ==
    Cardinality({j \in (k + 1)..Len(vs) : TRUE})
       + Cardinality({j \in (k + 1)..Len(vs) : vs[j] >= 10})

RECURSIVE SumMod(_, _)
SumMod(vs, k) ==
    IF k = 0 THEN 0
    ELSE (SumMod(vs, k - 1) + vs[k] * Pow10(DigitsAfter(vs, k))) % 97

ChecksumValid(s) == SumMod(IbanValues(s), Len(IbanValues(s))) = 1

AsmDocs ==
    { [groups |-> <<PatternGroup("http://x.fr", "url", 0),
                    PatternGroup("a@b.fr", "email", 12),
                    PatternGroup("0612345678", "phone", 19),
                    PatternGroup("FR7630006000011234567890189", "iban", 30),
                    PatternGroup("185057800608436", "ssn", 58)>>,
       keys |-> {"http://x.fr", "a@b.fr", "0612345678"}],
      \* "SARL Morel M Dupont 12 rue Lyon"
      [groups |-> <<Group(<<Tok("SARL", "word", 0), Tok("Morel", "word", 5)>>,
                          "company_candidate", "probable", FALSE),
                    Group(<<Tok("12", "number", 20), Tok("rue", "word", 23),
                            Tok("Lyon", "word", 27)>>,
                          "address_fragment", "probable", FALSE),
                    Group(<<Tok("M", "word", 11), Tok("Dupont", "word", 13)>>,
                          "person_candidate", "probable", FALSE)>>,
       keys |-> {"SARL Morel", "Morel", "M Dupont", "Dupont", "12 rue Lyon", "Lyon"}],
      \* "M Dupont a Mme Martin a M Durand"
      [groups |-> <<Group(<<Tok("M", "word", 0), Tok("Dupont", "word", 2)>>,
                          "person_candidate", "probable", FALSE),
                    Group(<<Tok("Mme", "word", 11), Tok("Martin", "word", 15)>>,
                          "person_candidate", "probable", FALSE),
                    Group(<<Tok("M", "word", 24), Tok("Durand", "word", 26)>>,
                          "person_candidate", "probable", FALSE)>>,
       keys |-> {"Dupont", "Martin", "Durand"}],
      \* "M Dupont a Alice puis Morel"
      [groups |-> <<Group(<<Tok("M", "word", 0), Tok("Dupont", "word", 2)>>,
                          "person_candidate", "probable", FALSE),
                    Group(<<Tok("Alice", "word", 11)>>, "", "candidate", FALSE),
                    Group(<<Tok("Morel", "word", 22)>>, "", "candidate", FALSE)>>,
       keys |-> {"Dupont", "Alice", "Morel"}] }

\* What a dictionary holds for a term.
KeyType(key) ==
    CASE key \in {"Dupont", "Martin", "Durand", "Morel", "M Dupont"} -> "surname"
      [] key = "Alice" -> "first_name"
      [] key \in {"Lyon", "12 rue Lyon"} -> "city"
      [] OTHER -> "company"

NoMatchResult == [dict |-> "communes", match |-> FALSE, type |-> "city"]

\* The result lists a term may come back with: no match, a match of the
\* term's own type, a miss followed by a match of another type.
AsmOptions(key) ==
    << <<NoMatchResult>>,
       <<TResult("dict_" \o KeyType(key), KeyType(key))>>,
       <<NoMatchResult,
         TResult("communes", IF KeyType(key) = "city" THEN "company" ELSE "city")>> >>

AsmResultsFor(keys) ==
    UNION { {[k \in S |-> AsmOptions(k)[c[k]]] : c \in [S -> 1..3]} :
            S \in SUBSET keys }

AsmInit ==
    /\ AliasIdle
    /\ MixIdle
    /\ ClientIdle
    /\ SubIdle
    /\ TokIdle
    /\ EgIdle
    /\ CanIdle
    /\ ParIdle
    /\ StIdle
    /\ DetIdle
    /\ \E d \in AsmDocs :
          /\ asmGroups = d.groups
          /\ asmTr \in AsmResultsFor(d.keys)
    /\ asmResolved = <<>>
    /\ asmOut = <<>>
    /\ asmpc = "input"

\* assemble(groups, touchstoneResults, new Map(), "generic"): the loop over
\* the groups, then mergeAdjacentPersons.
AsmCall ==
    /\ asmpc = "input"
    /\ \E r \in {ResolveFrom(asmGroups, 1, asmTr, <<>>, EmptyMap, "generic",
                               InitialCounters, ClientPick)} :
          \E m \in {mergeAdjacentPersons(r.entities, r.map, "generic",
                                         r.counters, ClientPick)} :
             /\ asmResolved' = r.entities
             /\ asmOut' = m.entities
    /\ asmpc' = "done"
    /\ UNCHANGED <<asmGroups, asmTr, notAsm>>

AsmNext == AsmCall

SpecAsm == AsmInit /\ [][AsmNext]_vars

IsPatternGroup(g) == g.skipTouchstone /\ g.localType # ""

\* C14: every pattern group (email, phone, iban, ssn, url) is assembled into
\* an entity of its own pattern's type with confidence high, whatever the
\* remote results contain.
C14_PatternGroupsKeepTypeHigh ==
    asmpc = "done" =>
       \A i \in DOMAIN asmGroups :
          IsPatternGroup(asmGroups[i]) =>
             \E j \in DOMAIN asmOut :
                /\ asmOut[j].text = asmGroups[i].text
                /\ asmOut[j].start = GroupStart(asmGroups[i])
                /\ asmOut[j].type = asmGroups[i].localType
                /\ asmOut[j].confidence = "high"

\* The remote results hold a match for the group's text or one of its tokens.
HasRemoteMatch(g) ==
    \E key \in {g.text} \cup {g.tokens[t].text : t \in DOMAIN g.tokens} :
        /\ key \in DOMAIN asmTr
        /\ \E n \in DOMAIN asmTr[key] : asmTr[key][n].match

\* C15: a company_candidate, person_candidate or address_fragment group is
\* resolved into an entity of type company, person or address, with
\* confidence high if the remote results hold at least one match for the
\* group text or one of its tokens, and medium otherwise.
C15_CandidateTypeAndConfidence ==
    asmpc = "done" =>
       \A i \in DOMAIN asmGroups :
          asmGroups[i].localType \in
                {"company_candidate", "person_candidate", "address_fragment"} =>
             /\ asmResolved[i].text = asmGroups[i].text
             /\ asmResolved[i].type =
                   (CASE asmGroups[i].localType = "company_candidate" -> "company"
                      [] asmGroups[i].localType = "person_candidate" -> "person"
                      [] asmGroups[i].localType = "address_fragment" -> "address")
             /\ asmResolved[i].confidence =
                   (IF HasRemoteMatch(asmGroups[i]) THEN "high" ELSE "medium")

\* A group made high by a match of one of its tokens only, next to a group
\* left medium although the results hold a (non-matching) entry for it.
C15_Witness ==
    /\ asmpc = "done"
    /\ \E i \in DOMAIN asmGroups :
          /\ asmGroups[i].localType = "company_candidate"
          /\ asmGroups[i].text \notin DOMAIN asmTr
          /\ asmResolved[i].confidence = "high"
    /\ \E i \in DOMAIN asmGroups :
          /\ asmGroups[i].localType = "address_fragment"
          /\ asmGroups[i].text \in DOMAIN asmTr
          /\ asmResolved[i].confidence = "medium"

Persons == {j \in DOMAIN asmOut : asmOut[j].type = "person"}

\* asmOut[j] is the merge of two entities of the resolved list.
IsMergeOf(e, a, b) ==
    /\ a.type = "person" /\ b.type = "person"
    /\ b.start - a.end <= 3
    /\ e.start = a.start /\ e.end = b.end
    /\ e.text = a.text \o " " \o b.text
    /\ e.confidence = (IF "high" \in {a.confidence, b.confidence} THEN "high"
                        ELSE IF "medium" \in {a.confidence, b.confidence}
                        THEN "medium" ELSE "low")
    /\ Range(e.sources) = Range(a.sources) \cup Range(b.sources)

\* C16: in assemble's output no two person entities at most 3 characters
\* apart remain, and every entity is one of the resolved entities or the
\* merge of two of them: from the first's start to the second's end, the
\* two texts joined, the higher confidence, the union of the sources.
C16_AdjacentPersonsMerged ==
    asmpc = "done" =>
       /\ \A i, j \in Persons :
             (i # j /\ asmOut[i].start <= asmOut[j].start) =>
                asmOut[j].start - asmOut[i].end > 3
       /\ \A j \in DOMAIN asmOut :
             \/ \E i \in DOMAIN asmResolved : asmOut[j] = asmResolved[i]
             \/ \E a, b \in DOMAIN asmResolved :
                   IsMergeOf(asmOut[j], asmResolved[a], asmResolved[b])

\* ------------------------------------------------------------------------
\* Generic numbering
\* ------------------------------------------------------------------------
\* The generic alias of a type that carries number n.
NumberedAlias(type, n) ==
    CASE type = "email" -> "personne" \o ToString(n) \o "@exemple.fr"
      [] type = "phone" -> "+33 X XX XX XX X" \o ToString(n)
      [] type = "iban" -> "FRXX XXXX XXXX XXXX XXXX XXX" \o ToString(n)
      [] type = "ssn" -> "X XX XX XX XXX XXX X" \o ToString(n)
      [] OTHER -> Labels(type) \o " " \o ToString(n)

\* The positions of the current call's output whose alias was generated by
\* this call: the text is not in the map the call loaded, and it is the
\* text's first occurrence.
NewlyAliased ==
    {i \in DOMAIN aout :
        /\ ~MapHas(aliases[acall.session], aout[i].text)
        /\ \A j \in 1..(i - 1) : aout[j].text # aout[i].text}

\* C17: in generic style the aliases one pipeline call newly generates for a
\* type carry the numbers 1, 2, 3, ... in order of generation.
C17_GenericNumbersInOrder ==
    (apc = "persist" /\ acall.style = "generic") =>
       \A i \in NewlyAliased :
          aout[i].proposedAlias =
             NumberedAlias(aout[i].type,
                1 + Cardinality({j \in NewlyAliased :
                                    j < i /\ aout[j].type = aout[i].type}))

\* ------------------------------------------------------------------------
\* Entity graph: canonicalize, MemoryEntityGraph, recordDocument, findMatches
\* ------------------------------------------------------------------------
\* recordDocument calls one behaviour starts.
MaxRecords == 2

\* Document ids, in the order localeCompare puts them.
DocIds == <<"doc_1", "doc_2", "doc_3">>

DocRank(d) == CHOOSE k \in DOMAIN DocIds : DocIds[k] = d

RECURSIVE trimStart(_)
trimStart(s) ==
    IF s # "" /\ CharAt(s, 0) \in WhiteSet THEN trimStart(sliceFrom(s, 1)) ELSE s

RECURSIVE trimEnd(_)
trimEnd(s) ==
    IF s # "" /\ CharAt(s, Len(s) - 1) \in WhiteSet
    THEN trimEnd(slice(s, 0, Len(s) - 1))
    ELSE s

\* Leading whitespace only.
trimLeft(s) == trimStart(s)

trim(s) == trimEnd(trimStart(s))

\* replace(/\s+/g, " ")
RECURSIVE collapseWhitespace(_)
collapseWhitespace(s) ==
    IF s = "" THEN ""
    ELSE IF CharAt(s, 0) \in WhiteSet
         THEN " " \o collapseWhitespace(trimStart(s))
         ELSE CharAt(s, 0) \o collapseWhitespace(sliceFrom(s, 1))

canonicalize(text) == collapseWhitespace(toUpperCase(trim(text)))

\* The references findByCanonical returns: the stored objects, in insertion
\* order, whose canonical is the upper-cased argument.
findByCanonical(ents, objs, canonical) ==
    SelectSeq([k \in DOMAIN ents |-> ents[k].ref],
              LAMBDA r : objs[r].canonical = toUpperCase(canonical))

\* The reference getEntity returns: the stored object itself, or null.
getEntity(ents, id) ==
    IF \E k \in DOMAIN ents : ents[k].id = id
    THEN ents[CHOOSE k \in DOMAIN ents : ents[k].id = id].ref
    ELSE NullRef

\* putEntity stores a copy of the object: entities.set(entity.id, {...entity}).
putEntity(ents, objs, entity) ==
    [objs |-> Append(objs, entity),
     ents |-> IF \E k \in DOMAIN ents : ents[k].id = entity.id
              THEN [k \in DOMAIN ents |->
                       IF ents[k].id = entity.id
                       THEN [id |-> entity.id, ref |-> Len(objs) + 1]
                       ELSE ents[k]]
              ELSE Append(ents, [id |-> entity.id, ref |-> Len(objs) + 1])]

\* Every stored occurrence, whatever its entity.
getOccurrencesAny(occs, entityId) == occs

getOccurrences(occs, entityId) ==
    SelectSeq(occs, LAMBDA o : o.entityId = entityId)

getDocumentOccurrences(occs, documentId) ==
    SelectSeq(occs, LAMBDA o : o.documentId = documentId)

\* The occurrence row recordDocument appends (alias and confirmed are carried
\* through unread and are left out).
Occurrence(entityId, documentId, originalText) ==
    [entityId |-> entityId, documentId |-> documentId,
     originalText |-> originalText]

DetectedEntity(text, type) == [text |-> text, type |-> type]

\* The entity lists recordDocument and findMatches are called with.
EntityLists ==
    { <<DetectedEntity("Dupont", "person")>>,
      <<DetectedEntity(" du pont", "person")>>,
      <<DetectedEntity("Dupont", "person"), DetectedEntity("Lyon", "city")>>,
      <<DetectedEntity("Dupont", "company")>>,
      <<DetectedEntity("Du  Pont", "person"), DetectedEntity("DU PONT ", "person")>>,
      <<DetectedEntity("Dupont", "person"), DetectedEntity("Dupont", "company")>> }

\* The element of a non-empty sequence of references that
\* sort((a, b) => b.lastSeen.localeCompare(a.lastSeen))[0] yields: the sort
\* is stable, so the first of the most recently seen.
MostRecentlySeen(refs, objs) ==
    refs[CHOOSE k \in DOMAIN refs :
            /\ \A j \in DOMAIN refs : objs[refs[j]].lastSeen <= objs[refs[k]].lastSeen
            /\ \A j \in 1..(k - 1) : objs[refs[j]].lastSeen < objs[refs[k]].lastSeen]

\* The candidate findMatches keeps for a detected entity: the most recently
\* seen known entity of its type, else known[0]; NullRef when none is known.
Candidate(detected, ents, objs) ==
    LET known == findByCanonical(ents, objs, canonicalize(detected.text))
        same == SelectSeq(known, LAMBDA r : objs[r].type = detected.type)
    IN  IF known = <<>> THEN [entity |-> NullRef, isFallback |-> FALSE]
        ELSE IF same # <<>>
             THEN [entity |-> MostRecentlySeen(same, objs), isFallback |-> FALSE]
             ELSE [entity |-> known[1], isFallback |-> TRUE]

\* occurrences.sort((a, b) => b.documentId.localeCompare(a.documentId))[0]
LastOccurrence(occurrences) ==
    occurrences[CHOOSE k \in DOMAIN occurrences :
        /\ \A j \in DOMAIN occurrences :
              DocRank(occurrences[j].documentId) <= DocRank(occurrences[k].documentId)
        /\ \A j \in 1..(k - 1) :
              DocRank(occurrences[j].documentId) < DocRank(occurrences[k].documentId)]

\* The EntityMatch built for one candidate (previousAlias, which the
\* occurrence row carries through unread, is left out).
MatchOf(detected, cand, currentTexts, objs, occs) ==
    LET entity == objs[cand.entity]
        lastOcc == LastOccurrence(getOccurrences(occs, entity.id))
        coEntityTexts ==
            SelectSeq(getDocumentOccurrences(occs, lastOcc.documentId),
                      LAMBDA o : o.entityId # entity.id)
        coOverlap ==
            SelectSeq(coEntityTexts,
                      LAMBDA o : canonicalize(o.originalText) \in currentTexts)
    IN  [knownEntity |-> entity.id,
         previousDocument |-> lastOcc.documentId,
         coEntities |-> SubSeq([k \in DOMAIN coEntityTexts |->
                                   coEntityTexts[k].originalText],
                               1, IF Len(coEntityTexts) < 5
                                  THEN Len(coEntityTexts) ELSE 5),
         matchConfidence |->
            IF cand.isFallback THEN "possible"
            ELSE IF entity.canonical = canonicalize(detected.text)
                    /\ Len(coOverlap) >= 1 THEN "exact"
            ELSE IF entity.canonical = canonicalize(detected.text) THEN "likely"
            ELSE "possible"]

\* The callbacks of the candidates, in order: each ends in
\* matches.set(candidate.detected.text, ...), or returns early.
RECURSIVE MatchesFrom(_, _, _, _, _, _, _)
MatchesFrom(detectedEntities, i, currentTexts, ents, objs, occs, docs) ==
    IF i = 0 THEN <<>>
    ELSE LET before == MatchesFrom(detectedEntities, i - 1, currentTexts,
                                   ents, objs, occs, docs)
             detected == detectedEntities[i]
             cand == Candidate(detected, ents, objs)
         IN  IF cand.entity = NullRef THEN before
             ELSE IF getOccurrences(occs, objs[cand.entity].id) = <<>> THEN before
             ELSE IF LastOccurrence(getOccurrences(occs, objs[cand.entity].id)).documentId
                        \notin docs THEN before
             ELSE TableSet(before, detected.text,
                           MatchOf(detected, cand, currentTexts, objs, occs))

findMatches(detectedEntities, ents, objs, occs, docs) ==
    MatchesFrom(detectedEntities, Len(detectedEntities),
                {canonicalize(detectedEntities[i].text) :
                    i \in DOMAIN detectedEntities},
                ents, objs, occs, docs)

\* The knownEntityId a caller passes for an entity after a findMatches
\* suggestion: the id of the suggested entity, "" when there is none.
SuggestedId(detected, ents, objs) ==
    LET cand == Candidate(detected, ents, objs)
    IN  IF cand.entity = NullRef THEN "" ELSE objs[cand.entity].id

RecordEntities(list, withKnown, ents, objs) ==
    [k \in DOMAIN list |->
        [text |-> list[k].text, type |-> list[k].type,
         knownEntityId |-> IF withKnown THEN SuggestedId(list[k], ents, objs)
                           ELSE ""]]

AllIdle == \A w \in Writers : rec[w].pc = "idle"

\* recordDocument is called with one of the lists: it runs up to
\* `await fingerprint(text)`.
RecordStart(w, lists) ==
    /\ rec[w].pc = "idle"
    /\ nrec < MaxRecords
    /\ \E d \in DOMAIN DocIds, list \in lists, withKnown \in BOOLEAN :
          rec' = [rec EXCEPT ![w] =
                     [NoRecord EXCEPT !.pc = "fp", !.documentId = DocIds[d],
                                    !.entities = RecordEntities(list, withKnown,
                                                     gEntities, gObjs),
                                    !.i = 1]]
    /\ nrec' = nrec + 1
    /\ gDetected' = <<>>
    /\ gMatches' = <<>>
    /\ UNCHANGED <<gEntities, gOccurrences, gDocuments, gObjs, gClock, gIds, notEg>>

\* now = new Date().toISOString(); graph.putDocument(...)
RecPutDocument(w) ==
    /\ rec[w].pc = "fp"
    /\ gClock' = gClock + 1
    /\ gDocuments' = gDocuments \cup {rec[w].documentId}
    /\ rec' = [rec EXCEPT ![w].pc = "doc", ![w].now = gClock + 1]
    /\ UNCHANGED <<gEntities, gOccurrences, gObjs, gIds, nrec, gDetected,
                   gMatches, notEg>>

\* The head of the loop over the entities: the call returns after the last
\* one; otherwise graph.findByCanonical(canonical), or with a knownEntityId
\* graph.getEntity(entityId).
RecLookup(w) ==
    /\ rec[w].pc \in {"doc", "occ"}
    /\ IF rec[w].i > Len(rec[w].entities)
       THEN rec' = [rec EXCEPT ![w] = NoRecord]
       ELSE LET ent == rec[w].entities[rec[w].i]
            IN  IF ent.knownEntityId # ""
                THEN rec' = [rec EXCEPT ![w].pc = "get",
                                        ![w].entityId = ent.knownEntityId,
                                        ![w].known = getEntity(gEntities,
                                                        ent.knownEntityId)]
                ELSE rec' = [rec EXCEPT ![w].pc = "find",
                                        ![w].entityId = "",
                                        ![w].existing =
                                           findByCanonical(gEntities, gObjs,
                                              canonicalize(ent.text))]
    /\ UNCHANGED <<gEntities, gOccurrences, gDocuments, gObjs, gClock, gIds,
                   nrec, gDetected, gMatches, notEg>>

\* After findByCanonical: existing.find(e => e.type === ent.type); with a
\* match graph.getEntity(entityId), without one generateId and
\* graph.putEntity of the new entity.
RecAfterFind(w) ==
    /\ rec[w].pc = "find"
    /\ LET ent == rec[w].entities[rec[w].i]
           same == SelectSeq(rec[w].existing, LAMBDA r : gObjs[r].type = ent.type)
       IN  IF same # <<>>
           THEN /\ rec' = [rec EXCEPT ![w].pc = "get",
                                      ![w].entityId = gObjs[same[1]].id,
                                      ![w].known = getEntity(gEntities,
                                                      gObjs[same[1]].id)]
                /\ UNCHANGED <<gEntities, gObjs, gIds>>
           ELSE \E id \in {"ent_" \o ToString(gIds + 1)} :
                \E put \in {putEntity(gEntities, gObjs,
                               [id |-> id, canonical |-> canonicalize(ent.text),
                                type |-> ent.type, firstSeen |-> rec[w].now,
                                lastSeen |-> rec[w].now, documentCount |-> 1])} :
                   /\ gIds' = gIds + 1
                   /\ gEntities' = put.ents
                   /\ gObjs' = put.objs
                   /\ rec' = [rec EXCEPT ![w].pc = "put", ![w].entityId = id]
    /\ UNCHANGED <<gOccurrences, gDocuments, gClock, nrec, gDetected, gMatches,
                   notEg>>

\* graph.addOccurrence({entityId, documentId, originalText, ...})
addOccurrence(w) ==
    /\ gOccurrences' = Append(gOccurrences,
                          Occurrence(rec[w].entityId, rec[w].documentId,
                                     rec[w].entities[rec[w].i].text))
    /\ rec' = [rec EXCEPT ![w].pc = "occ", ![w].i = rec[w].i + 1]

\* After getEntity: with an entity known.lastSeen = now (written to the
\* object getEntity returned) and graph.getOccurrences(entityId); without
\* one the occurrence is added.
RecAfterGet(w) ==
    /\ rec[w].pc = "get"
    /\ IF rec[w].known # NullRef
       THEN /\ gObjs' = [gObjs EXCEPT ![rec[w].known].lastSeen = rec[w].now]
            /\ rec' = [rec EXCEPT ![w].pc = "occs",
                                  ![w].occurrences =
                                     getOccurrences(gOccurrences, rec[w].entityId)]
            /\ UNCHANGED gOccurrences
       ELSE /\ addOccurrence(w)
            /\ UNCHANGED gObjs
    /\ UNCHANGED <<gEntities, gDocuments, gClock, gIds, nrec, gDetected,
                   gMatches, notEg>>

\* After getOccurrences: uniqueDocs, known.documentCount = uniqueDocs.size,
\* graph.putEntity(known).
RecAfterOccs(w) ==
    /\ rec[w].pc = "occs"
    /\ LET uniqueDocs == {rec[w].occurrences[k].documentId :
                             k \in DOMAIN rec[w].occurrences}
                         \cup {rec[w].documentId}
           objs == [gObjs EXCEPT ![rec[w].known].documentCount =
                                     Cardinality(uniqueDocs)]
       IN  \E put \in {putEntity(gEntities, objs, objs[rec[w].known])} :
              /\ gEntities' = put.ents
              /\ gObjs' = put.objs
    /\ rec' = [rec EXCEPT ![w].pc = "put"]
    /\ UNCHANGED <<gOccurrences, gDocuments, gClock, gIds, nrec, gDetected,
                   gMatches, notEg>>

\* After putEntity: the occurrence is added.
RecAddOccurrence(w) ==
    /\ rec[w].pc = "put"
    /\ addOccurrence(w)
    /\ UNCHANGED <<gEntities, gDocuments, gObjs, gClock, gIds, nrec, gDetected,
                   gMatches, notEg>>

\* findMatches(detectedEntities, graph), while no recordDocument is running.
FindMatchesCall ==
    /\ AllIdle
    /\ gEntities # <<>>
    /\ gDetected = <<>>
    /\ \E detected \in EntityLists :
          /\ gDetected' = detected
          /\ gMatches' = findMatches(detected, gEntities, gObjs, gOccurrences,
                                     gDocuments)
    /\ UNCHANGED <<gEntities, gOccurrences, gDocuments, gObjs, gClock, gIds,
                   rec, nrec, notEg>>

EgInit ==
    /\ AliasIdle
    /\ MixIdle
    /\ ClientIdle
    /\ SubIdle
    /\ TokIdle
    /\ AsmIdle
    /\ EgIdle
    /\ CanIdle
    /\ ParIdle
    /\ StIdle
    /\ DetIdle

\* recordDocument calls one after another, and findMatches between them.
RecordStartAlone == AllIdle /\ RecordStart(1, EntityLists)

EgSeqNext ==
    \/ RecordStartAlone
    \/ RecPutDocument(1)
    \/ RecLookup(1)
    \/ RecAfterFind(1)
    \/ RecAfterGet(1)
    \/ RecAfterOccs(1)
    \/ RecAddOccurrence(1)
    \/ FindMatchesCall

SpecGraphSeq == EgInit /\ [][EgSeqNext]_vars

\* The graph after recordDocument("doc_1", ..., [Dupont, Lyon], graph) on an
\* empty graph.
KnownIds == {"ent_a", "ent_b"}

KnownGraph ==
    /\ gObjs = <<[id |-> "ent_a", canonical |-> "DUPONT", type |-> "person",
                  firstSeen |-> 1, lastSeen |-> 1, documentCount |-> 1],
                 [id |-> "ent_b", canonical |-> "LYON", type |-> "city",
                  firstSeen |-> 1, lastSeen |-> 1, documentCount |-> 1]>>
    /\ gEntities = <<[id |-> "ent_a", ref |-> 1], [id |-> "ent_b", ref |-> 2]>>
    /\ gOccurrences = <<Occurrence("ent_a", "doc_1", "Dupont"),
                        Occurrence("ent_b", "doc_1", "Lyon")>>
    /\ gDocuments = {"doc_1"}
    /\ gClock = 1
    /\ gIds = 0
    /\ rec = [w \in Writers |-> NoRecord]
    /\ nrec = 0
    /\ gDetected = <<>>
    /\ gMatches = <<>>

EgKnownInit ==
    /\ AliasIdle
    /\ MixIdle
    /\ ClientIdle
    /\ SubIdle
    /\ TokIdle
    /\ AsmIdle
    /\ (EgIdle \/ KnownGraph)
    /\ CanIdle
    /\ ParIdle
    /\ StIdle
    /\ DetIdle

\* The lists the interleaved calls are called with.
WriterLists ==
    { <<DetectedEntity("Dupont", "person")>>,
      <<DetectedEntity("Lyon", "city"), DetectedEntity("dupont", "person")>> }

\* recordDocument calls of two writers, one call each, interleaved at their
\* awaits; the writers are interchangeable, and writer 1 is the one that
\* starts first.
RecordStartNext == \E w \in Writers : w = nrec + 1 /\ RecordStart(w, WriterLists)

EgNext ==
    \/ RecordStartNext
    \/ \E w \in Writers : RecPutDocument(w)
    \/ \E w \in Writers : RecLookup(w)
    \/ \E w \in Writers : RecAfterFind(w)
    \/ \E w \in Writers : RecAfterGet(w)
    \/ \E w \in Writers : RecAfterOccs(w)
    \/ \E w \in Writers : RecAddOccurrence(w)

SpecGraph == EgKnownInit /\ [][EgNext]_vars

\* The distinct document ids among the stored occurrences of an entity.
OccurrenceDocs(id) ==
    {gOccurrences[k].documentId :
        k \in {j \in DOMAIN gOccurrences : gOccurrences[j].entityId = id}}

CountsMatchOccurrences ==
    \A k \in DOMAIN gEntities :
       gObjs[gEntities[k].ref].documentCount
          = Cardinality(OccurrenceDocs(gEntities[k].id))

\* No two KnownEntity share canonical form and type.
OnePerCanonicalAndType ==
    \A j, k \in DOMAIN gEntities :
       (/\ gObjs[gEntities[j].ref].canonical = gObjs[gEntities[k].ref].canonical
        /\ gObjs[gEntities[j].ref].type = gObjs[gEntities[k].ref].type) => j = k

\* C18: after recordDocument calls that ran one after another, each
\* KnownEntity's documentCount is the number of distinct document ids among
\* its stored occurrences, and no two KnownEntity share canonical form and
\* type (a text recorded again updates the entity it already has).
C18_SequentialCountsDistinctDocuments ==
    AllIdle => (CountsMatchOccurrences /\ OnePerCanonicalAndType)

\* The same canonical entity has been recorded in two different documents:
\* one entity, documentCount 2, and three occurrences of which two are in the
\* same document.
C18_Witness ==
    /\ AllIdle
    /\ nrec = 2
    /\ Len(gEntities) = 1
    /\ gObjs[gEntities[1].ref].documentCount = 2
    /\ Len(gOccurrences) = 3

\* C19: once interleaved recordDocument calls have all completed, the
\* documentCount of each entity that was known before them is the number of
\* distinct document ids among its stored occurrences.
C19_ConcurrentCountsDistinctDocuments ==
    AllIdle =>
       \A k \in DOMAIN gEntities :
          gEntities[k].id \in KnownIds =>
             gObjs[gEntities[k].ref].documentCount
                = Cardinality(OccurrenceDocs(gEntities[k].id))

\* The stored entities that share the canonical form of a detected entity,
\* and those of them that also have its type.
KnownLike(detected) ==
    {k \in DOMAIN gEntities :
        gObjs[gEntities[k].ref].canonical = canonicalize(detected.text)}

KnownSameType(detected) ==
    {k \in KnownLike(detected) : gObjs[gEntities[k].ref].type = detected.type}

\* The document an entity was last seen in: that of its latest occurrence.
PreviousDocument(id) ==
    gOccurrences[CHOOSE j \in DOMAIN gOccurrences :
        /\ gOccurrences[j].entityId = id
        /\ \A l \in DOMAIN gOccurrences :
              gOccurrences[l].entityId = id => l <= j].documentId

CanonicalOf(id) ==
    gObjs[gEntities[CHOOSE k \in DOMAIN gEntities : gEntities[k].id = id].ref].canonical

\* Another entity of the previous document of stored entity k has a
\* canonical form that is in the current detection set.
CoEntityReappears(k) ==
    \E j \in DOMAIN gOccurrences :
       /\ gOccurrences[j].documentId = PreviousDocument(gEntities[k].id)
       /\ gOccurrences[j].entityId # gEntities[k].id
       /\ CanonicalOf(gOccurrences[j].entityId)
             \in {canonicalize(gDetected[i].text) : i \in DOMAIN gDetected}

ExpectedConfidence(detected) ==
    IF KnownLike(detected) = {} THEN "none"
    ELSE IF KnownSameType(detected) = {} THEN "possible"
    ELSE IF \E k \in KnownSameType(detected) : CoEntityReappears(k) THEN "exact"
    ELSE "likely"

ReportedConfidence(detected) ==
    IF \E m \in DOMAIN gMatches : gMatches[m].key = detected.text
    THEN gMatches[CHOOSE m \in DOMAIN gMatches :
                     gMatches[m].key = detected.text].value.matchConfidence
    ELSE "none"

\* C20: for every detected {text, type} the map findMatches returns reports
\* exact when a known entity of the same canonical form and type exists and
\* another entity of its previous document has a canonical form in the
\* detection set, likely when such an entity exists and no co-entity
\* reappears, possible when known entities share the canonical form and none
\* has the type, and nothing when no known entity shares the canonical form.
C20_MatchConfidenceTiers ==
    \A i \in DOMAIN gDetected :
       ReportedConfidence(gDetected[i]) = ExpectedConfidence(gDetected[i])

\* The texts of the other entities' occurrences in a document.
CoEntitiesIn(documentId, id) ==
    LET others == SelectSeq(gOccurrences,
                     LAMBDA o : o.documentId = documentId /\ o.entityId # id)
    IN  [k \in DOMAIN others |-> others[k].originalText]

\* C21: the previousDocument and coEntities findMatches reports for a matched
\* entity are those of the entity's most recent occurrence, the document
\* recorded last among those the entity occurs in, whatever the document ids.
C21_MatchReportsLatestOccurrence ==
    \A m \in DOMAIN gMatches :
       /\ gMatches[m].value.previousDocument
             = PreviousDocument(gMatches[m].value.knownEntity)
       /\ gMatches[m].value.coEntities
             = CoEntitiesIn(PreviousDocument(gMatches[m].value.knownEntity),
                            gMatches[m].value.knownEntity)

\* ------------------------------------------------------------------------
\* canonicalize on its own
\* ------------------------------------------------------------------------
\* Length of the texts canonicalize is called with.
MaxCanonLen == 4

\* The characters of those texts: letters of both cases, a hyphen and two
\* kinds of whitespace.
CanonChars == {"a", "B", "-", " ", "\t"}

RECURSIVE StringsOfLength(_)
StringsOfLength(n) ==
    IF n = 0 THEN {""}
    ELSE {s \o c : s \in StringsOfLength(n - 1), c \in CanonChars}

CanInit ==
    /\ AliasIdle
    /\ MixIdle
    /\ ClientIdle
    /\ SubIdle
    /\ TokIdle
    /\ AsmIdle
    /\ EgIdle
    /\ ParIdle
    /\ StIdle
    /\ DetIdle
    /\ canIn \in UNION {StringsOfLength(n) : n \in 0..MaxCanonLen}
    /\ canOut = ""
    /\ canpc = "input"

CanCall ==
    /\ canpc = "input"
    /\ canOut' = canonicalize(canIn)
    /\ canpc' = "done"
    /\ UNCHANGED <<canIn, notCan>>

CanNext == CanCall

SpecCan == CanInit /\ [][CanNext]_vars

\* A string without leading or trailing whitespace, without lower-case
\* letters, and whose whitespace is single spaces.
IsCanonical(s) ==
    /\ s # "" => (CharAt(s, 0) \notin WhiteSet /\ CharAt(s, Len(s) - 1) \notin WhiteSet)
    /\ \A i \in 0..(Len(s) - 1) :
          /\ ~(\E k \in 1..26 : LowerChars[k] = CharAt(s, i))
          /\ CharAt(s, i) \in WhiteSet =>
                (CharAt(s, i) = " " /\ (i > 0 => CharAt(s, i - 1) \notin WhiteSet))

\* The non-whitespace characters of a string, upper-cased, in order.
RECURSIVE InkOf(_)
InkOf(s) ==
    IF s = "" THEN ""
    ELSE IF CharAt(s, 0) \in WhiteSet THEN InkOf(sliceFrom(s, 1))
    ELSE UpperChar(CharAt(s, 0)) \o InkOf(sliceFrom(s, 1))

\* C22: canonicalize is idempotent, and its result is trimmed, upper-cased
\* and has every run of whitespace collapsed to a single space (the other
\* characters are kept, upper-cased, in order).
C22_CanonicalizeIdempotent ==
    canpc = "done" =>
       /\ canonicalize(canOut) = canOut
       /\ IsCanonical(canOut)
       /\ InkOf(canOut) = InkOf(canIn)

\* A text with a lower-case letter and an inner run of two kinds of
\* whitespace has been canonicalized.
C22_Witness ==
    /\ canpc = "done"
    /\ canIn = "a \tB"
    /\ canOut = "A B"

\* ------------------------------------------------------------------------
\* Classification before assembly
\* ------------------------------------------------------------------------
\* C23: when classifyBatch's promise has resolved and assemble is about to
\* read the map, no parseAndStoreResults call is still running, every real
\* term of every Connect response answered 200 is in the map and written to
\* the cache, and a malformed 200 body has left no unobserved rejection.
C23_ClassificationCompleteBeforeAssembly ==
    cpc = "done" =>
       /\ tasks = {}
       /\ unhandled = 0
       /\ \A i \in DOMAIN posts :
             (posts[i].url = "connect" /\ posts[i].outcome = "ok") =>
                \A term \in Range(posts[i].terms) \cap BatchReal(posts[i].batch) :
                   /\ MapHas(results, term)
                   /\ \E w \in stored : w.term = term /\ w.batch = posts[i].batch

\* ------------------------------------------------------------------------
\* Pipeline calls of two sessions running together
\* ------------------------------------------------------------------------
\* The entity lists assemble resolves for the documents of the two calls
\* (types with a generic counter of their own).
ParLists ==
    { <<Ent("person", "Martin"), Ent("person", "Dupont")>>,
      <<Ent("city", "Lyon"), Ent("person", "Jean Dupont")>>,
      <<Ent("person", "Durand")>>,
      <<Ent("company", "SARL Morel"), Ent("city", "Paris"), Ent("city", "Lyon")>> }

\* The generic style draws nothing.
NoPicks(ents) == [i \in 1..Len(ents) |-> [a |-> 1, b |-> 1]]

ParInit ==
    /\ AliasIdle
    /\ MixIdle
    /\ ClientIdle
    /\ SubIdle
    /\ TokIdle
    /\ AsmIdle
    /\ EgIdle
    /\ CanIdle
    /\ StIdle
    /\ DetIdle
    /\ parCounters = InitialCounters
    /\ parAliases = [s \in SessionIds |-> EmptyMap]
    /\ parCalls \in [SessionIds -> {[pc |-> "called", ents |-> l,
                                     aliasMap |-> EmptyMap, out |-> <<>>] :
                                       l \in ParLists}]

\* pipeline(text, fetchPort, store, sessionId, {aliasStyle: "generic"}) up to
\* its first await: resetAliasCounters(), store.getAliasMap(sessionId).
ParStart(s) ==
    /\ parCalls[s].pc = "called"
    /\ parCounters' = resetAliasCounters(parCounters)
    /\ parCalls' = [parCalls EXCEPT ![s].pc = "getAliasMap",
                                    ![s].aliasMap = getAliasMap(parAliases, s)]
    /\ UNCHANGED <<parAliases, notPar>>

\* After getAliasMap: tokenize, detectLanguage, detectLocal, and
\* classifyBatch up to its await.
ParClassify(s) ==
    /\ parCalls[s].pc = "getAliasMap"
    /\ parCalls' = [parCalls EXCEPT ![s].pc = "classifyBatch"]
    /\ UNCHANGED <<parCounters, parAliases, notPar>>

\* After classifyBatch: assemble, then store.setAliasMap(sessionId, aliasMap).
ParAssemble(s) ==
    /\ parCalls[s].pc = "classifyBatch"
    /\ \E r \in {AliasAll(parCalls[s].ents, parCalls[s].aliasMap, parCounters,
                          "generic", NoPicks(parCalls[s].ents), <<>>)} :
          /\ parCounters' = r.counters
          /\ parAliases' = setAliasMap(parAliases, s, r.map)
          /\ parCalls' = [parCalls EXCEPT ![s].pc = "setAliasMap",
                                          ![s].aliasMap = r.map,
                                          ![s].out = r.out]
    /\ UNCHANGED notPar

\* After setAliasMap: substitute, and the call returns.
ParReturn(s) ==
    /\ parCalls[s].pc = "setAliasMap"
    /\ parCalls' = [parCalls EXCEPT ![s].pc = "returned"]
    /\ UNCHANGED <<parCounters, parAliases, notPar>>

ParNext ==
    \/ \E s \in SessionIds : ParStart(s)
    \/ \E s \in SessionIds : ParClassify(s)
    \/ \E s \in SessionIds : ParAssemble(s)
    \/ \E s \in SessionIds : ParReturn(s)

SpecPar == ParInit /\ [][ParNext]_vars

\* The entities with the aliases a call assigns when it runs alone on an
\* empty alias map.
AloneOut(ents) ==
    AliasAll(ents, EmptyMap, resetAliasCounters(InitialCounters), "generic",
             NoPicks(ents), <<>>).out

\* C24: pipeline calls of different sessions that run interleaved at their
\* awaits each assign the generic aliases they would assign running alone.
C24_SessionsNumberAlone ==
    \A s \in SessionIds :
       parCalls[s].pc \in {"setAliasMap", "returned"} =>
          parCalls[s].out = AloneOut(parCalls[s].ents)

\* ------------------------------------------------------------------------
\* A pipeline call on a StorePort one method of which rejects
\* ------------------------------------------------------------------------
StoreMethods == {"getAliasMap", "getCachedClassification",
                 "setCachedClassification", "setAliasMap"}

Fate(method, fate) == [method |-> method, fate |-> fate]

StoreInit ==
    /\ AliasIdle
    /\ MixIdle
    /\ SubIdle
    /\ TokIdle
    /\ AsmIdle
    /\ EgIdle
    /\ CanIdle
    /\ ParIdle
    /\ DetIdle
    /\ broken \in StoreMethods
    /\ storeFate = {}
    /\ doc \in {d \in Docs : d.text \in {"M Dupont a@b.fr", "a@b.fr 0612345678"}}
    /\ cfg \in [maxBatchSize : {1, MaxBatchSize}, decoyRatio : ClientRatios,
               aliasStyle : {"generic"}]
    /\ cache = EmptyMap
    /\ now = 0
    /\ cpc = "start"
    /\ pos = [g |-> 1, t |-> 0]
    /\ results = EmptyMap
    /\ termsToClassify = <<>>
    /\ batches = <<>>
    /\ bi = 0
    /\ useRest = FALSE
    /\ cur = [mixed |-> <<>>, realSet |-> {}]
    /\ posts = <<>>
    /\ tasks = {}
    /\ served = {}
    /\ misses = {}
    /\ stored = {}
    /\ unhandled = 0
    /\ nticks = 0
    /\ entities = <<>>
    /\ anonymizedText = ""

\* The steps of the call, taken while the storage call they make resolves.
StoreBegin == broken # "getAliasMap" /\ PipelineBegin

StoreLookup == broken # "getCachedClassification" /\ Lookup

StoreConnectOk == broken # "setCachedClassification" /\ ConnectOk

StoreRestOk == broken # "setCachedClassification" /\ RestOk

StoreParseTaskStep == broken # "setCachedClassification" /\ ParseTaskStep

StoreResolve == broken # "setAliasMap" /\ PipelineResolve

\* `await store.getAliasMap(sessionId)` rejects (index.ts 50): pipeline()
\* rejects.
GetAliasMapFails ==
    /\ broken = "getAliasMap"
    /\ cpc = "start"
    /\ genericCounters' = resetAliasCounters(genericCounters)
    /\ cpc' = "rejected"
    /\ storeFate' = storeFate \cup {Fate("getAliasMap", "rejected")}
    /\ UNCHANGED <<doc, cfg, cache, now, pos, results, termsToClassify, batches, bi,
                   useRest, cur, posts, tasks, served, misses, stored, unhandled,
                   nticks, entities, anonymizedText, aliases, aliasMap, apc, acall,
                   aout, issued, ncalls, mixVars, subVars, tokVars, asmVars, egVars,
                   canVars, parVars, detVars, broken>>

\* An `await store.getCachedClassification(...)` of the lookup loop rejects
\* (tokenizer.ts 184, 192): outside any try, classifyBatch and pipeline()
\* reject.
GetCachedFails ==
    /\ broken = "getCachedClassification"
    /\ cpc = "lookup"
    /\ cpc' = "rejected"
    /\ storeFate' = storeFate \cup {Fate("getCachedClassification", "rejected")}
    /\ UNCHANGED <<doc, cfg, cache, now, pos, results, termsToClassify, batches, bi,
                   useRest, cur, posts, tasks, served, misses, stored, unhandled,
                   nticks, entities, anonymizedText, aliasVars, mixVars, subVars, tokVars, asmVars,
                   egVars, canVars, parVars, detVars, broken>>

\* The Connect POST answers 200 and the first setCachedClassification of the
\* unawaited parseAndStoreResults rejects (tokenizer.ts 240, 289-290): the
\* term is in the map, nothing is cached, the promise rejects unobserved and
\* the batch loop goes on.
ConnectOkStoreFails ==
    /\ broken = "setCachedClassification"
    /\ cpc = "awaitConnect"
    /\ LET todo == RealEntries(ResponseEntries(cur.mixed), cur.realSet)
       IN  /\ results' = IF todo = <<>> THEN results
                         ELSE MapSet(results, Head(todo), ServerResults(Head(todo)))
           /\ unhandled' = IF todo = <<>> THEN unhandled ELSE unhandled + 1
           /\ storeFate' = IF todo = <<>> THEN storeFate
                           ELSE storeFate \cup
                                   {Fate("setCachedClassification", "unobserved")}
    /\ Proceed(batches, bi + 1, FALSE, SetOutcome(posts, "ok"))
    /\ UNCHANGED <<doc, cfg, cache, now, pos, termsToClassify, batches, useRest,
                   tasks, served, misses, stored, nticks, entities, anonymizedText,
                   aliasVars, mixVars, subVars, tokVars, asmVars,
                   egVars, canVars, parVars, detVars, broken>>

\* The REST POST answers 200 and the first setCachedClassification of the
\* awaited parseAndStoreResults rejects (tokenizer.ts 319-322): the catch of
\* classifyBatchRest takes it for a failed fallback and the loop goes on.
RestOkStoreFails ==
    /\ broken = "setCachedClassification"
    /\ cpc = "awaitRest"
    /\ LET todo == RealEntries(ResponseEntries(cur.mixed), cur.realSet)
       IN  /\ results' = IF todo = <<>> THEN results
                         ELSE MapSet(results, Head(todo), ServerResults(Head(todo)))
           /\ storeFate' = IF todo = <<>> THEN storeFate
                           ELSE storeFate \cup
                                   {Fate("setCachedClassification", "caught")}
    /\ Proceed(batches, bi + 1, TRUE, SetOutcome(posts, "ok"))
    /\ UNCHANGED <<doc, cfg, cache, now, pos, termsToClassify, batches, useRest,
                   tasks, served, misses, stored, unhandled, nticks, entities,
                   anonymizedText, aliasVars, mixVars, subVars, tokVars, asmVars,
                   egVars, canVars, parVars, detVars, broken>>

\* classifyBatch has resolved, assemble runs, and
\* `await store.setAliasMap(sessionId, aliasMap)` rejects (index.ts 83):
\* pipeline() rejects.
SetAliasMapFails ==
    /\ broken = "setAliasMap"
    /\ cpc = "done"
    /\ \E a \in {assemble(doc.groups, results, aliasMap, cfg.aliasStyle,
                          genericCounters, ClientPick)} :
           /\ aliasMap' = a.map
           /\ genericCounters' = a.counters
    /\ cpc' = "rejected"
    /\ storeFate' = storeFate \cup {Fate("setAliasMap", "rejected")}
    /\ UNCHANGED <<doc, cfg, cache, now, pos, results, termsToClassify, batches, bi,
                   useRest, cur, posts, tasks, served, misses, stored, unhandled,
                   nticks, entities, anonymizedText, aliases, apc, acall, aout,
                   issued, ncalls, mixVars, subVars, tokVars, asmVars, egVars,
                   canVars, parVars, detVars, broken>>

StoreNext ==
    \/ StoreBegin
    \/ StoreLookup
    \/ StoreConnectOk
    \/ StoreRestOk
    \/ StoreParseTaskStep
    \/ StoreResolve
    \/ ConnectMalformed
    \/ Connect404
    \/ ConnectOtherStatus
    \/ ConnectThrow
    \/ RestMalformed
    \/ RestOtherStatus
    \/ RestThrow
    \/ Tick
    \/ GetAliasMapFails
    \/ GetCachedFails
    \/ ConnectOkStoreFails
    \/ RestOkStoreFails
    \/ SetAliasMapFails

SpecStore == StoreInit /\ [][StoreNext]_vars

\* C25: every rejected storage call of a pipeline run rejects the pipeline
\* call: none is left unobserved, none is caught as a failed classification,
\* and a call in which one occurred does not resolve.
C25_StoreFailuresPropagate ==
    /\ \A f \in storeFate : f.fate = "rejected"
    /\ cpc = "resolved" => storeFate = {}

\* ------------------------------------------------------------------------
\* detectLocal (local-detector.ts), run on the tokens of tokenize
\* ------------------------------------------------------------------------
\* The entries of the data files that the documents below meet (README.md
\* 590-639), upper-cased as the build* functions leave them.
LEGAL_FORMS == {"SCI", "SARL", "SA", "ME"}
STREET_TYPES == {"RUE", "DR"}
ALL_HONORIFICS == {"M.", "M", "MME", "DR", "ME"}
ALL_STOP_WORDS == {"LE", "LA", "LES", "DE", "DES", "SA"}

isCapitalized(text) == InClass(text, 0, UpperSet)

isStopWord(text) == toUpperCase(text) \in ALL_STOP_WORDS

\* text.replace(/\.$/, "")
stripFinalDot(text) ==
    IF InClass(text, Len(text) - 1, {"."}) THEN slice(text, 0, Len(text) - 1)
    ELSE text

isAllUpper(text) ==
    /\ text = toUpperCase(text)
    /\ \E k \in 0..(Len(text) - 1) : CharAt(text, k) \in UpperSet

\* The nearest token before index that is not whitespace, 0 for none.
LastInkBefore(tokens, index) ==
    LET before == {j \in 1..(index - 1) : tokens[j].kind # "whitespace"}
    IN  IF before = {} THEN 0
        ELSE CHOOSE j \in before : \A k \in before : k <= j

isSentenceStartToken(tokens, index) ==
    LET j == LastInkBefore(tokens, index)
    IN  j = 0 \/ (tokens[j].kind = "punctuation" /\ tokens[j].text = ".")

\* The indices (1-based) of the word tokens, in order.
wordIndices(tokens) ==
    SelectSeq([i \in 1..Len(tokens) |-> i], LAMBDA i : tokens[i].kind = "word")

\* Pass 1: every pattern token is a group of its own and is consumed.
patternPass(tokens) ==
    LET idx == SelectSeq([i \in 1..Len(tokens) |-> i],
                         LAMBDA i : tokens[i].kind = "pattern")
    IN  [groups |-> [k \in 1..Len(idx) |->
                        Group(<<tokens[idx[k]]>>,
                              IF tokens[idx[k]].patternType = "ssn_fr" THEN "ssn"
                              ELSE tokens[idx[k]].patternType,
                              "certain", TRUE)],
         consumed |-> Range(idx)]

\* The breaks of the inner loops on the next word token, pass by pass.
wordStops(next, groupTokens) ==
    \/ ~isCapitalized(next.text)
    \/ isStopWord(next.text)

\* Pass 2 breaking as passes 4 and 5 do.
legalFormStopsAtStopWords(next, groupTokens) == wordStops(next, groupTokens)

legalFormStops(next, groupTokens) ==
    \/ ~isCapitalized(next.text)
    \/ isStopWord(next.text) /\ ~isCapitalized(next.text)

addressStops(next, groupTokens) ==
    \/ Len(groupTokens) >= 8
    \/ next.text \in {".", ","}

stops(pass, next, groupTokens) ==
    CASE pass = "legal" -> legalFormStops(next, groupTokens)
      [] pass = "address" -> addressStops(next, groupTokens)
      [] OTHER -> wordStops(next, groupTokens)

\* The inner loop `for (let wj = wi + 1; ...)` of passes 2 to 5.
RECURSIVE absorb(_, _, _, _, _, _)
absorb(tokens, wis, wj, consumed, groupTokens, pass) ==
    IF wj > Len(wis) THEN [tokens |-> groupTokens, consumed |-> consumed]
    ELSE IF wis[wj] \in consumed \/ stops(pass, tokens[wis[wj]], groupTokens)
    THEN [tokens |-> groupTokens, consumed |-> consumed]
    ELSE Only({ absorb(tokens, wis, wj + 1, c, Append(groupTokens, tokens[wis[wj]]),
                       pass) :
                c \in {consumed \cup {wis[wj]}} })

\* A pass that gives every seed back, grouped or not.
releaseSeedAlways(consumed, i, groupTokens) == consumed \ {i}

\* `consumed.delete(i)` for a seed that absorbed nothing.
releaseSeed(consumed, i, groupTokens) ==
    IF Len(groupTokens) > 1 THEN consumed ELSE consumed \ {i}

seeds(pass, t) ==
    IF pass = "legal" THEN toUpperCase(t.text) \in LEGAL_FORMS
    ELSE stripFinalDot(toUpperCase(t.text)) \in ALL_HONORIFICS

\* One turn of the loop of pass 2 (legal forms) or pass 4 (honorifics).
seedStep(tokens, wis, wi, st, pass) ==
    IF wis[wi] \in st.consumed \/ ~seeds(pass, tokens[wis[wi]]) THEN st
    ELSE Only({ [groups |-> IF Len(a.tokens) > 1
                            THEN Append(st.groups,
                                        Group(a.tokens,
                                              IF pass = "legal" THEN "company_candidate"
                                              ELSE "person_candidate",
                                              "probable", FALSE))
                            ELSE st.groups,
                 consumed |-> releaseSeed(a.consumed, wis[wi], a.tokens)] :
                a \in {absorb(tokens, wis, wi + 1, st.consumed \cup {wis[wi]},
                              <<tokens[wis[wi]]>>, pass)} })

\* Pass 3, one turn: a street type takes the number before it, if any and
\* free, and the words after it.
addressStep(tokens, wis, wi, st) ==
    IF wis[wi] \in st.consumed \/ toUpperCase(tokens[wis[wi]].text) \notin STREET_TYPES
    THEN st
    ELSE LET i == wis[wi]
             j == LastInkBefore(tokens, i)
             back == IF j # 0 /\ tokens[j].kind = "number" /\ j \notin st.consumed
                     THEN <<j>> ELSE <<>>
         IN  Only({ [groups |-> Append(st.groups,
                                       Group(a.tokens, "address_fragment",
                                             "probable", FALSE)),
                     consumed |-> a.consumed] :
                    a \in {absorb(tokens, wis, wi + 1,
                                  st.consumed \cup Range(back) \cup {i},
                                  [k \in 1..Len(back) |-> tokens[back[k]]]
                                     \o <<tokens[i]>>,
                                  "address")} })

\* Pass 5, one turn: a free capitalized word starts a bare candidate.
candidateStep(tokens, wis, wi, st) ==
    LET i == wis[wi]
        t == tokens[i]
    IN  IF \/ i \in st.consumed
           \/ ~isCapitalized(t.text)
           \/ isStopWord(t.text)
           \/ Len(t.text) < 2
           \/ isSentenceStartToken(tokens, i) /\ ~isAllUpper(t.text)
        THEN st
        ELSE Only({ [groups |-> Append(st.groups,
                                       Group(a.tokens, "", "candidate", FALSE)),
                     consumed |-> a.consumed] :
                    a \in {absorb(tokens, wis, wi + 1, st.consumed \cup {i}, <<t>>,
                                  "candidate")} })

passStep(tokens, wis, wi, st, pass) ==
    CASE pass \in {"legal", "honorific"} -> seedStep(tokens, wis, wi, st, pass)
      [] pass = "address" -> addressStep(tokens, wis, wi, st)
      [] OTHER -> candidateStep(tokens, wis, wi, st)

\* The loop `for (let wi = 0; wi < wordIndices.length; wi++)` of a pass.
RECURSIVE runPass(_, _, _, _, _)
runPass(tokens, wis, wi, st, pass) ==
    IF wi > Len(wis) THEN st
    ELSE Only({ runPass(tokens, wis, wi + 1, nx, pass) :
                nx \in {passStep(tokens, wis, wi, st, pass)} })

\* detectLocal(tokens): the groups and, for the properties, the consumed set.
detectLocalState(tokens) ==
    Only({ Only({ Only({ Only({ runPass(tokens, wis, 1, p4, "candidate") :
                                p4 \in {runPass(tokens, wis, 1, p3, "honorific")} }) :
                         p3 \in {runPass(tokens, wis, 1, p2, "address")} }) :
                  p2 \in {runPass(tokens, wis, 1, patternPass(tokens), "legal")} }) :
           wis \in {wordIndices(tokens)} })

detectLocal(tokens) == detectLocalState(tokens).groups

\* ------------------------------------------------------------------------
\* tokenize, detectLocal and assemble in a row, as pipeline() calls them
\* ------------------------------------------------------------------------
MaxDetPieces == 3

DetPieces == {"SCI ", "Les ", "Lilas ", "M ", "Dupont, ", "Martin ", "a@b.fr ",
              "12 ", "rue ", "le "}

\* What classifyBatch may hand to assemble for the groups: nothing (the
\* service is down), or a surname entry for the names it knows.
DetResultsFor(groups) ==
    LET texts == UNION {{groups[g].tokens[t].text : t \in DOMAIN groups[g].tokens} :
                        g \in DOMAIN groups}
        known == texts \cap {"Dupont", "Martin"}
    IN  {EmptyMap, [k \in known |-> <<TResult("dict_surname", "surname")>>]}

DetInit ==
    /\ AliasIdle
    /\ MixIdle
    /\ ClientIdle
    /\ SubIdle
    /\ TokIdle
    /\ AsmIdle
    /\ EgIdle
    /\ CanIdle
    /\ ParIdle
    /\ StIdle
    /\ detText \in {Concat(ps) : ps \in SeqUpTo(DetPieces, MaxDetPieces)}
    /\ detTokens = <<>>
    /\ detGroups = <<>>
    /\ detEntities = <<>>
    /\ detpc = "text"

DetTokenize ==
    /\ detpc = "text"
    /\ detTokens' = tokenize(detText)
    /\ detpc' = "tokens"
    /\ UNCHANGED <<detText, detGroups, detEntities, notDet>>

DetLocal ==
    /\ detpc = "tokens"
    /\ detGroups' = detectLocal(detTokens)
    /\ detpc' = "groups"
    /\ UNCHANGED <<detText, detTokens, detEntities, notDet>>

DetAssemble ==
    /\ detpc = "groups"
    /\ \E tr \in DetResultsFor(detGroups) :
          \E a \in {assemble(detGroups, tr, EmptyMap, "generic", InitialCounters,
                             ClientPick)} :
             detEntities' = a.entities
    /\ detpc' = "entities"
    /\ UNCHANGED <<detText, detTokens, detGroups, notDet>>

DetNext == DetTokenize \/ DetLocal \/ DetAssemble

SpecDet == DetInit /\ [][DetNext]_vars

\* The groups of the output that hold the token starting at offset start.
GroupsHolding(start) ==
    {g \in DOMAIN detGroups :
        \E t \in DOMAIN detGroups[g].tokens : detGroups[g].tokens[t].start = start}

\* C26: in detectLocal's output every token belongs to at most one group,
\* and once in that group.
C26_TokenInAtMostOneGroup ==
    detpc \in {"groups", "entities"} =>
       /\ \A k \in DOMAIN detTokens :
             Cardinality(GroupsHolding(detTokens[k].start)) <= 1
       /\ \A g \in DOMAIN detGroups :
             \A t, u \in DOMAIN detGroups[g].tokens :
                detGroups[g].tokens[t].start = detGroups[g].tokens[u].start => t = u

\* A lone legal form released by pass 2 and claimed by pass 5, and a seed
\* that kept what it absorbed.
C26_Witness ==
    /\ detpc = "groups"
    /\ \/ /\ detText = "SCI le Martin "
          /\ Len(detGroups) = 2
          /\ detGroups[1].text = "SCI" /\ detGroups[1].localType = ""
          /\ detGroups[2].text = "Martin"
       \/ /\ detText = "M SCI Lilas "
          /\ Len(detGroups) = 1
          /\ detGroups[1].text = "SCI Lilas"

\* ---- company groups ----
WordIdx == wordIndices(detTokens)

CompanyGroups ==
    {g \in DOMAIN detGroups : detGroups[g].localType = "company_candidate"}

\* The rank of token tok among the word tokens, 0 when it is not one.
RankOf(tok) ==
    IF \E w \in DOMAIN WordIdx : detTokens[WordIdx[w]].start = tok.start
    THEN CHOOSE w \in DOMAIN WordIdx : detTokens[WordIdx[w]].start = tok.start
    ELSE 0

WordAt(w) == detTokens[WordIdx[w]]

\* The tokens of group g are word tokens that follow one another.
Consecutive(g) ==
    /\ RankOf(detGroups[g].tokens[1]) # 0
    /\ \A k \in 2..Len(detGroups[g].tokens) :
          RankOf(detGroups[g].tokens[k]) = RankOf(detGroups[g].tokens[k - 1]) + 1

\* Word tokens that are legal forms and seed or belong to no company group.
InCompanyGroup(w) ==
    \E g \in CompanyGroups : \E k \in DOMAIN detGroups[g].tokens :
       detGroups[g].tokens[k].start = WordAt(w).start

LegalFormWords == {w \in DOMAIN WordIdx : toUpperCase(WordAt(w).text) \in LEGAL_FORMS}

\* A released legal form is there for passes 3 to 5: one that pass 5 takes
\* wherever it stands is held by a group.
ReleasedAvailable(w) ==
    (/\ isCapitalized(WordAt(w).text)
     /\ ~isStopWord(WordAt(w).text)
     /\ Len(WordAt(w).text) >= 2
     /\ isAllUpper(WordAt(w).text)) => GroupsHolding(WordAt(w).start) # {}

C28_EntitySpansDisjoint ==
    detpc = "entities" =>
       \A i, j \in DOMAIN detEntities :
          i # j => \/ detEntities[i].end <= detEntities[j].start
                   \/ detEntities[j].end <= detEntities[i].start

\* C30: the text of every entity is the substring of the original text
\* between the entity's start and end offsets.
C30_EntityTextIsSubstring ==
    detpc = "entities" =>
       \A i \in DOMAIN detEntities :
          detEntities[i].text = slice(detText, detEntities[i].start, detEntities[i].end)

\* ------------------------------------------------------------------------
\* The alias map of a session over its calls
\* ------------------------------------------------------------------------
\* C29: within one session's stored alias map two different original texts
\* never have the same alias.
C29_SessionAliasesDistinct ==
    \A s \in SessionIds :
       \A k1, k2 \in DOMAIN aliases[s] :
          k1 # k2 => aliases[s][k1] # aliases[s][k2]

====
